---- MODULE Spec2Model ----
(***************************************************************************)
(* A model of the LLM-to-presentation automation of src/src/index.ts:      *)
(*   - the response extraction pipeline (OpenWebUIExtractor                *)
(*     .extractLatestResponse), over bounded DOM snapshots: SpecExtract;   *)
(*   - the workflow of LLMToPresentationAutomator.automateFullWorkflow     *)
(*     with the polling loops of the extraction and creation stages: Spec. *)
(* Times are in milliseconds, as in the source.                            *)
(***************************************************************************)
EXTENDS Integers, Sequences, FiniteSets, TLC

VARIABLES
  \* ---- extraction pipeline (extractLatestResponse)
  dom,        \* the DOM snapshot the pipeline reads: a sequence of elements
  fault,      \* the DOM call of the pipeline that raised ("none" while none)
  xpc,        \* position inside extractLatestResponse
  xresult,    \* the text returned (NoText while none)
  xstrategy,  \* the strategy that produced xresult (0 while none)
  xerror,     \* the error extractLatestResponse threw ("none" while none)
  \* ---- workflow (main, automateFullWorkflow and the two stages)
  pc,             \* the step the workflow is at
  page,           \* the page that is open: "none", "extraction", "creation"
  llmSource,      \* where llmResponse comes from: "none", "extracted", "demo"
  extractError,   \* the error the extraction stage threw ("none" while none)
  createError,    \* the error the creation stage threw ("none" while none)
  creationStarted,   \* createPresentationInPresenton has been called
  successReported,   \* 'AUTOMATION COMPLETED SUCCESSFULLY' has been logged
  depth,          \* pending outer calls of handlePresentonUploadInterface
  reviewHolds,    \* 5-minute holds of waitFiveMinutesOnFinalURL in this run
  \* ---- the polling loop that runs, or ran last
  poller,         \* which loop: "none", "response", "outline", "button", ...
  outcome,        \* "None", "Pending", "Satisfied", "TimedOut" or "Error"
  elapsed,        \* Date.now() - startTime, in ms
  drift,          \* by how much the sleeps of this run overran, in ms
  tick,           \* evaluations of the completion predicate in this run
  sleeps,         \* waitForTimeout calls made inside the loop in this run
  pred,           \* the value of the predicate at its last evaluation
  satisfiedBy,    \* the test that set the flag of the loop ("none" while none)
  \* ---- the last tick of waitForGeneratePresentationButtonToBeReady
  btns,           \* the buttons of the page at that tick, in document order
  readyIdx,       \* the button the snapshot found ready (0: none)
  clickedIdx,     \* the button the click was dispatched to (0: none)
  handleTick,     \* the tick at which the clicked locator was obtained
  clickRaised,    \* the click of that tick raised
  clickFails,     \* clicks that raised in this run
  \* ---- one call of waitFiveMinutesOnFinalURL
  hpc,            \* "idle", "check", "hold" or "done"
  hurl,           \* the URL of the page when it is called
  hwaits,         \* one-second waits made by the call so far
  \* ---- the front part of sendPromptAndGetResponse
  cpc,            \* "idle", "login", "input", "knowledge", "prompt", "send",
                  \* "done" or "failed"
  env,            \* which of the credential variables of process.env are set
  lpage,          \* what the page shows when handleLoginIfRequired runs
  loginPath,      \* the branch handleLoginIfRequired took ("none" while none)
  loginEnd,       \* how performLogin went (NoLogin while it was not called)
  candidates,     \* chat-input selectors with a match that are still to try
  inputText,      \* the content of the chat input, a sequence of tokens
  kRaised,        \* an action of selectUWATKnowledge has raised
  otherRaised,    \* an action of the cascade outside selectUWATKnowledge raised
  sent,           \* the message has been sent
  sendIdx,        \* the selector of sendButtonSelectors the loop is at
  buttonClicks,   \* clicks on a send button that completed
  enterPresses,   \* presses of the Enter key
  \* ---- one evaluation of a selector cascade
  kpc,            \* "idle", "scan", "fallback" or "done"
  kname,          \* which cascade of the workflow is evaluated
  kdom,           \* per selector of the list: what it evaluates to on the page
  kidx,           \* the selector the loop is at
  kclicks,        \* the elements acted on so far, as <<selector, instance>>
  kend,           \* how the evaluation ended ("none" while it runs)
  \* ---- one call of checkTemplateSelectionVisuals
  vpc,            \* "idle", "check" or "done"
  vsignals,       \* the selection signals present in the document
  vraises,        \* page.evaluate raises
  vresult,        \* the value returned ("none" before the return)
  \* ---- the environment of the run
  slowEnv,        \* which of the timeout variables of process.env are set
  snapshotsFail,  \* page.screenshot raises in this run
  pageStalls,     \* the Presenton page makes no progress in this run
  \* ---- one call of selectGeneralTemplate
  tpc,            \* "idle", "method1", "method2", "method3" or "done"
  tsel,           \* the selector of the method the loop is at
  tleft,          \* matches of that selector still to try (0: not inside one)
  tclicks,        \* clicks that completed so far
  tfalse,         \* calls of checkTemplateSelectionVisuals that returned false
  tselected,         \* the flag templateSelected of the method
  ttarget,        \* Method 3: the index and the tag count of the locator
  tend,           \* "none", "returned" or "threw"
  \* ---- handlePresentonUploadInterface up to its button search
  upc,            \* "idle", "inputs", "alternatives" or "buttonSearch"
  uidx,           \* the selector the loop is at
  ucalls,         \* calls of handlePresentonUploadInterface so far
  upage,          \* per selector of the two lists: what it does on the page
  \* ---- main and the browser of the automator
  mpc,            \* the step main, or a caller of the class, is at
  mcaller,        \* "main", or "direct": the workflow is called without
                  \* initialize
  browser,        \* this.browser: "null", "open" or "closed"
  mpage,          \* the page of the stage that runs ("none" while none)
  opened,         \* pages opened by browser.newPage()
  closed,         \* calls of page.close() that were made
  merror,         \* the error that reached the caller ("none" while none)
  mwaits,         \* one-second waits main has made after the workflow
  \* ---- one bottom-button fallback: list the buttons, wait, click by index
  fpc,            \* "idle", "snapshot", "waiting" or "done"
  fname,          \* the method the fallback belongs to: "final" or "outline"
  fdom,           \* the buttons of the page, in document order
  ftarget,        \* the index and the identity of the button the list chose
  mutated,        \* the page changed between the list and the click
  fclicked,       \* the identity of the button that got the click (0: none)
  fend            \* "none", "nothing", "raised" or "clicked"

xvars == <<dom, fault, xpc, xresult, xstrategy, xerror>>

flowvars ==
  <<pc, page, llmSource, extractError, createError, creationStarted,
    successReported, depth, reviewHolds>>

pollvars == <<poller, outcome, elapsed, drift, tick, sleeps, pred, satisfiedBy>>

btnvars == <<btns, readyIdx, clickedIdx, handleTick, clickRaised, clickFails>>

wvars == <<flowvars, pollvars, btnvars>>

hvars == <<hpc, hurl, hwaits>>

sendvars == <<sendIdx, buttonClicks, enterPresses>>

cvars ==
  <<cpc, env, lpage, loginPath, loginEnd, candidates, inputText, kRaised, otherRaised,
    sent, sendvars>>

kvars == <<kpc, kname, kdom, kidx, kclicks, kend>>

vvars == <<vpc, vsignals, vraises, vresult>>

evars == <<slowEnv, snapshotsFail, pageStalls>>

tvars ==
  <<tpc, tsel, tleft, tclicks, tfalse, tselected, ttarget, tend>>

\* the variables of the methods that are modelled one call at a time
uvars == <<upc, uidx, ucalls, upage>>

mvars == <<mpc, mcaller, browser, mpage, opened, closed, merror, mwaits>>

fvars == <<fpc, fname, fdom, ftarget, mutated, fclicked, fend>>

stepvars == <<tvars, uvars, mvars, fvars>>

\* the variables of the workflow and of the parts modelled before it
basevars == <<xvars, wvars, hvars, cvars, kvars, vvars, evars>>

\* the variables of the parts that are modelled on their own
auxvars == <<hvars, cvars, kvars, vvars, evars, stepvars>>

vars == <<xvars, wvars, auxvars>>

-----------------------------------------------------------------------------
(* Bounds of the model *)

\* the largest number of top-level elements in a DOM snapshot
MaxEls == 2

\* the largest total overrun of the sleeps of one polling loop, in ms
MaxDrift == 1

\* the largest number of buttons on the page during the Generate-button wait
MaxButtons == 2

\* the largest number of chat-input selectors that have a match
MaxInputs == 2

\* the number of selectors of a cascade
MaxSelectors == 2

\* the largest number of clicks the page rejects in one Generate-button wait
MaxClickFails == 1

\* the largest number of nested calls of handlePresentonUploadInterface
MaxDepth == 1

-----------------------------------------------------------------------------
(* Texts.  A text is described by what the pipeline reads of it: its        *)
(* trimmed length, whether it contains the prompt submitted in this run     *)
(* (echo), whether it contains the literal 'Create a presentation' (lit),   *)
(* and whether it contains one of the UI strings strategy 3 filters         *)
(* ('Send a message', 'Enter', 'Type', 'Sign in': chrome).                  *)

\* text.length > 50 of the fallback scan
MinMessageLen == 50

\* line.length > 100 of the page text fallback
MinLineLen == 100

NoText == [len |-> 0, echo |-> FALSE, lit |-> FALSE, chrome |-> FALSE]

Plain(n) == [len |-> n, echo |-> FALSE, lit |-> FALSE, chrome |-> FALSE]

\* the texts of the message elements of a snapshot
MessageTexts ==
  { NoText, Plain(20), Plain(60),
    [len |-> 60, echo |-> TRUE, lit |-> FALSE, chrome |-> FALSE],
    [len |-> 60, echo |-> TRUE, lit |-> TRUE, chrome |-> FALSE] }

\* the texts of the other elements of a snapshot
OtherTexts ==
  { Plain(20), Plain(100), Plain(120),
    [len |-> 120, echo |-> FALSE, lit |-> FALSE, chrome |-> TRUE] }

IsEmpty(t) == t.len = 0

-----------------------------------------------------------------------------
(* DOM snapshots.  An element has a class (cls), is or is not the last     *)
(* child of its parent (last), holds its text directly (inner = "none") or *)
(* in a single child element of class inner, and has the text content text.*)

Elements ==
  [cls : {"message"}, last : BOOLEAN, inner : {"none", "content"},
   text : MessageTexts]
  \cup [cls : {"prose"}, last : BOOLEAN, inner : {"none"}, text : MessageTexts]
  \cup [cls : {"div"}, last : {FALSE}, inner : {"none"}, text : OtherTexts]

RECURSIVE SeqsUpTo(_, _)
SeqsUpTo(S, n) ==
  IF n = 0 THEN { <<>> }
  ELSE LET shorter == SeqsUpTo(S, n - 1)
       IN  shorter \cup { Append(q, e) : q \in { r \in shorter : Len(r) = n - 1 }, e \in S }

Snapshots == SeqsUpTo(Elements, MaxEls)

(* The nodes of a snapshot in document order: position 2i-1 is element i,  *)
(* position 2i its child (which exists when inner is not "none"; being the *)
(* only child, it is a last child).                                        *)
NodePositions(d) == 1 .. (2 * Len(d))

NodeAt(d, p) ==
  LET el == d[(p + 1) \div 2]
  IN  IF p % 2 = 1
      THEN [exists |-> TRUE, cls |-> el.cls, last |-> el.last,
            anc |-> "", ancLast |-> FALSE, text |-> el.text]
      ELSE [exists |-> el.inner # "none", cls |-> el.inner, last |-> TRUE,
            anc |-> el.cls, ancLast |-> el.last, text |-> el.text]

Min(S) == CHOOSE x \in S : \A y \in S : x <= y
Max(S) == CHOOSE x \in S : \A y \in S : x >= y

-----------------------------------------------------------------------------
(* Strategy 1: the responseSelectors cascade.  A selector 'A:last-child B' *)
(* is [anc |-> A, cls |-> B]; a selector 'B:last-child' is                 *)
(* [anc |-> "", cls |-> B].                                                *)

responseSelectors ==
  << [anc |-> "testid", cls |-> "content"],
     [anc |-> "message", cls |-> "content"],
     [anc |-> "chat-message", cls |-> "text"],
     [anc |-> "", cls |-> "assistant-message"],
     [anc |-> "", cls |-> "response"],
     [anc |-> "", cls |-> "message-content"],
     [anc |-> "", cls |-> "prose"],
     [anc |-> "", cls |-> "markdown"],
     [anc |-> "message", cls |-> "prose"],
     [anc |-> "message", cls |-> "markdown"],
     [anc |-> "data-message-id", cls |-> "prose"],
     [anc |-> "", cls |-> "message"],
     [anc |-> "", cls |-> "testid"] >>

SelectorMatches(sel, n) ==
  /\ n.exists
  /\ n.cls = sel.cls
  /\ IF sel.anc = "" THEN n.last ELSE (n.anc = sel.anc /\ n.ancLast)

\* this.page.locator(selector): the positions that match, in document order
Locate(sel, d) == { p \in NodePositions(d) : SelectorMatches(sel, NodeAt(d, p)) }

\* elements.first().textContent() of a selector with count() > 0
FirstText(sel, d) == NodeAt(d, Min(Locate(sel, d))).text

\* the selectors of the cascade that return: count() > 0 and a non-empty text
SelectorHits(d) ==
  { k \in 1 .. Len(responseSelectors) :
      /\ Locate(responseSelectors[k], d) # {}
      /\ ~IsEmpty(FirstText(responseSelectors[k], d)) }

\* the for loop over responseSelectors: the first selector that returns
SelectorCascade(d) ==
  IF SelectorHits(d) = {} THEN NoText
  ELSE FirstText(responseSelectors[Min(SelectorHits(d))], d)

-----------------------------------------------------------------------------
(* Strategy 2: the fallback scan inside page.evaluate.                     *)

messageSelectors == << "message", "testid", "chat-message", "prose" >>

\* document.querySelectorAll(selector)
QueryAll(c, d) == { p \in NodePositions(d) : NodeAt(d, p).exists /\ NodeAt(d, p).cls = c }

\* mutant: the length filter is dropped
QualifiesAnyLength(t) == ~IsEmpty(t) /\ ~t.lit

\* text && text.length > 50 && !text.includes('Create a presentation')
Qualifies(t) == ~IsEmpty(t) /\ t.len > MinMessageLen /\ ~t.lit

\* the messages of one selector that the backward walk accepts
Accepted(c, d) == { p \in QueryAll(c, d) : Qualifies(NodeAt(d, p).text) }

\* the first selector whose backward walk returns, and the message it returns
FallbackScan(d) ==
  LET ks == { k \in 1 .. Len(messageSelectors) : Accepted(messageSelectors[k], d) # {} }
  IN  IF ks = {} THEN NoText
      ELSE NodeAt(d, Max(Accepted(messageSelectors[Min(ks)], d))).text

-----------------------------------------------------------------------------
(* Strategy 3: the page text fallback.  The text of every top-level        *)
(* element is one line of the body's text.                                 *)

\* pageText.split('\n').filter(line => line.trim().length > 0)
Lines(d) == { i \in 1 .. Len(d) : ~IsEmpty(d[i].text) }

\* mutant: lines of exactly 100 characters are kept too
PotentialResponsesFrom100(d) ==
  { i \in Lines(d) : d[i].text.len >= MinLineLen /\ ~d[i].text.chrome }

\* line.length > 100 and none of the four UI strings
PotentialResponses(d) ==
  { i \in Lines(d) : d[i].text.len > MinLineLen /\ ~d[i].text.chrome }

PageTextFallback(d) ==
  IF PotentialResponses(d) = {} THEN NoText
  ELSE d[Max(PotentialResponses(d))].text

-----------------------------------------------------------------------------
(* extractLatestResponse, one action per strategy *)

\* the workflow is not running
HIdle == hpc = "idle" /\ hurl = {} /\ hwaits = 0

NoLogin == [filled |-> FALSE, clicked |-> FALSE, end |-> "none"]

CIdle ==
  /\ cpc = "idle" /\ env = {} /\ lpage = {} /\ loginPath = "none"
  /\ loginEnd = NoLogin
  /\ candidates = 0 /\ inputText = <<>>
  /\ kRaised = FALSE /\ otherRaised = FALSE /\ sent = FALSE
  /\ sendIdx = 0 /\ buttonClicks = 0 /\ enterPresses = 0

KIdle ==
  /\ kpc = "idle" /\ kname = "none" /\ kdom = <<>> /\ kidx = 0
  /\ kclicks = <<>> /\ kend = "none"

VIdle == vpc = "idle" /\ vsignals = {} /\ vraises = FALSE /\ vresult = "none"

\* no timeout variable is set, screenshots are written, and the Presenton
\* page may progress
EIdle == slowEnv = {} /\ snapshotsFail = FALSE /\ pageStalls = FALSE

NoTarget == [index |-> 0, count |-> 0]

TIdle ==
  /\ tpc = "idle" /\ tsel = 0 /\ tleft = 0 /\ tclicks = 0 /\ tfalse = 0
  /\ tselected = FALSE /\ ttarget = NoTarget /\ tend = "none"

NoPage == [inputs |-> <<>>, buttons |-> <<>>]

UIdle == upc = "idle" /\ uidx = 0 /\ ucalls = 0 /\ upage = NoPage

MIdle ==
  /\ mpc = "idle" /\ mcaller = "main" /\ browser = "null" /\ mpage = "none"
  /\ opened = 0 /\ closed = 0 /\ merror = "none" /\ mwaits = 0

NoButton == [index |-> 0, id |-> 0]

FIdle ==
  /\ fpc = "idle" /\ fname = "none" /\ fdom = <<>> /\ ftarget = NoButton
  /\ mutated = FALSE /\ fclicked = 0 /\ fend = "none"

StepIdle == TIdle /\ UIdle /\ MIdle /\ FIdle

AuxIdle == HIdle /\ CIdle /\ KIdle /\ VIdle /\ EIdle /\ StepIdle

WIdle ==
  /\ pc = "Idle" /\ page = "none" /\ llmSource = "none"
  /\ extractError = "none" /\ createError = "none"
  /\ creationStarted = FALSE /\ successReported = FALSE
  /\ depth = 0 /\ reviewHolds = 0
  /\ poller = "none" /\ outcome = "None" /\ elapsed = 0 /\ drift = 0
  /\ tick = 0 /\ sleeps = 0 /\ pred = FALSE /\ satisfiedBy = "none"
  /\ btns = <<>> /\ readyIdx = 0 /\ clickedIdx = 0 /\ handleTick = 0
  /\ clickRaised = FALSE /\ clickFails = 0

XInit ==
  /\ WIdle /\ AuxIdle
  /\ dom \in Snapshots
  /\ fault = "none"
  /\ xpc = "selectors"
  /\ xresult = NoText
  /\ xstrategy = 0
  /\ xerror = "none"

\* mutant: the fallback scan is left out of the chain
AfterSkippingScan(at) == IF at = "selectors" THEN "pagetext" ELSE "threw"

\* the block of extractLatestResponse that follows a block that found nothing
After(at) ==
  CASE at = "selectors" -> "fallback"
    [] at = "fallback" -> "pagetext"
    [] OTHER -> "threw"

Return(t, k) ==
  /\ xresult' = t
  /\ xstrategy' = k
  /\ xpc' = "returned"
  /\ UNCHANGED xerror

FallThrough ==
  /\ xpc' = After(xpc)
  /\ UNCHANGED <<xresult, xstrategy, xerror>>

TryResponseSelectors ==
  /\ xpc = "selectors"
  /\ IF ~IsEmpty(SelectorCascade(dom))
     THEN Return(SelectorCascade(dom), 1)
     ELSE FallThrough
  /\ UNCHANGED <<dom, fault, wvars, auxvars>>

TryFallbackScan ==
  /\ xpc = "fallback"
  /\ \E raises \in BOOLEAN :
       IF raises
       THEN \* caught: 'Fallback extraction failed'
            /\ fault' = "evaluate"
            /\ FallThrough
       ELSE /\ fault' = fault
            /\ IF ~IsEmpty(FallbackScan(dom))
               THEN Return(FallbackScan(dom), 2)
               ELSE FallThrough
  /\ UNCHANGED <<dom, wvars, auxvars>>

\* mutant: the page text fallback returns an empty string instead of throwing
TryPageTextReturningEmpty ==
  /\ xpc = "pagetext"
  /\ Return(PageTextFallback(dom), 3)
  /\ UNCHANGED <<dom, fault, wvars, auxvars>>

TryPageText ==
  /\ xpc = "pagetext"
  /\ IF ~IsEmpty(PageTextFallback(dom))
     THEN Return(PageTextFallback(dom), 3)
     ELSE /\ xpc' = After(xpc)
          /\ xerror' = "ExtractionFailed"
          /\ UNCHANGED <<xresult, xstrategy>>
  /\ UNCHANGED <<dom, fault, wvars, auxvars>>

XNext == TryResponseSelectors \/ TryFallbackScan \/ TryPageText

SpecExtract == XInit /\ [][XNext]_vars

XFinished == xpc \in {"returned", "threw"}

\* strategy 2 ran and found nothing, or raised
ScanFoundNothing == fault = "evaluate" \/ IsEmpty(FallbackScan(dom))

-----------------------------------------------------------------------------
(* C2: extractLatestResponse returns the result of strategy k only if each *)
(* of the strategies 1..k-1 produced no non-empty result for the same      *)
(* snapshot: the strategies are tried in the fixed order 1, 2, 3 and the    *)
(* first non-empty result is the one returned.                             *)
C2_FirstNonEmptyStrategyWins ==
  /\ xpc = "returned" => xstrategy \in 1 .. 3
  /\ xstrategy = 1 => xresult = SelectorCascade(dom) /\ ~IsEmpty(xresult)
  /\ xstrategy = 2 =>
       /\ IsEmpty(SelectorCascade(dom))
       /\ xresult = FallbackScan(dom) /\ ~IsEmpty(xresult)
  /\ xstrategy = 3 =>
       /\ IsEmpty(SelectorCascade(dom))
       /\ ScanFoundNothing
       /\ xresult = PageTextFallback(dom) /\ ~IsEmpty(xresult)

\* strategy 3 returned, on a snapshot whose message elements the first two
\* strategies rejected without any DOM call raising
C2_Witness ==
  /\ xstrategy = 3
  /\ fault = "none"
  /\ \E i \in 1 .. Len(dom) : dom[i].cls = "message" /\ ~IsEmpty(dom[i].text)

-----------------------------------------------------------------------------
(* C3: extractLatestResponse throws its extraction-failed error only when  *)
(* all three strategies found nothing, and when they all found nothing it  *)
(* throws: it never returns an empty string.                               *)
C3_ThrowsIffAllStrategiesEmpty ==
  /\ xerror = "ExtractionFailed" =>
       /\ IsEmpty(SelectorCascade(dom))
       /\ ScanFoundNothing
       /\ IsEmpty(PageTextFallback(dom))
  /\ xpc = "returned" => ~IsEmpty(xresult)
  /\ xpc = "threw" <=> xerror = "ExtractionFailed"
  /\ (XFinished /\ IsEmpty(SelectorCascade(dom)) /\ ScanFoundNothing
        /\ IsEmpty(PageTextFallback(dom))) => xpc = "threw"

\* the error was thrown on a snapshot that holds text
C3_Witness ==
  /\ xerror = "ExtractionFailed"
  /\ \E i \in 1 .. Len(dom) : ~IsEmpty(dom[i].text)

-----------------------------------------------------------------------------
(* C4: the snapshot holds a single "message" element with 20 characters of *)
(* text and no .content child.                                             *)
OnlyShortMessage ==
  /\ Len(dom) = 1
  /\ dom[1].cls = "message" /\ dom[1].inner = "none"
  /\ dom[1].text = Plain(20)

\* C4 as claimed: on such a snapshot strategy 1 returns empty, strategies 2
\* and 3 reject the text by length, and the extraction ends with the
\* extraction-failed error.
C4_ShortMessageAlwaysFails ==
  (OnlyShortMessage /\ XFinished) =>
     /\ xerror = "ExtractionFailed"
     /\ IsEmpty(SelectorCascade(dom))

\* C4 as amended: when the element is not the last child of its parent, all
\* three strategies reject it (strategies 2 and 3 by their length filters)
\* and the extraction ends with the extraction-failed error; when it is the
\* last child of its parent, the generic selector '.message:last-child' of
\* strategy 1 returns its 20 characters.
C4_ShortMessageFailsUnlessLastChild ==
  (OnlyShortMessage /\ XFinished) =>
     IF dom[1].last
     THEN xpc = "returned" /\ xstrategy = 1 /\ xresult = Plain(20)
     ELSE /\ xerror = "ExtractionFailed"
          /\ IsEmpty(SelectorCascade(dom))
          /\ fault = "none" => IsEmpty(FallbackScan(dom))
          /\ dom[1].text.len < MinMessageLen
          /\ IsEmpty(PageTextFallback(dom))
          /\ dom[1].text.len < MinLineLen

\* the scenario, with the element not a last child, ended with the error
\* after the fallback scan ran
C4_Witness ==
  /\ OnlyShortMessage /\ ~dom[1].last
  /\ xpc = "threw" /\ fault = "none"

-----------------------------------------------------------------------------
(* C5: strategy 2 gathers every element that matches any message-container *)
(* shape, walks the whole collection from the end backward, skips the      *)
(* elements whose text is short or contains the prompt submitted in this   *)
(* run, and returns the first that qualifies: the last qualifying element  *)
(* of the page, never a message that echoes the prompt.                    *)
AllMessages(d) ==
  { p \in NodePositions(d) :
      \E k \in 1 .. Len(messageSelectors) : p \in QueryAll(messageSelectors[k], d) }

QualifiesAsClaimed(t) == t.len >= MinMessageLen /\ ~t.echo

ScanAsClaimed(d) ==
  LET ok == { p \in AllMessages(d) : QualifiesAsClaimed(NodeAt(d, p).text) }
  IN  IF ok = {} THEN NoText ELSE NodeAt(d, Max(ok)).text

C5_ScanReturnsLastNonEchoMessage ==
  /\ xstrategy = 2 => xresult = ScanAsClaimed(dom) /\ ~xresult.echo
  /\ (xpc \in {"pagetext", "threw"} \/ xstrategy = 3) /\ fault = "none"
       => IsEmpty(ScanAsClaimed(dom))

-----------------------------------------------------------------------------
(* The workflow.  Spec starts where main has launched the browser and      *)
(* automateFullWorkflow is entered.                                        *)

XIdle ==
  /\ dom = <<>> /\ fault = "none" /\ xpc = "idle"
  /\ xresult = NoText /\ xstrategy = 0 /\ xerror = "none"

\* main has launched the browser and calls automateFullWorkflow
WStart ==
  /\ pc = "Start" /\ page = "none" /\ llmSource = "none"
  /\ extractError = "none" /\ createError = "none"
  /\ creationStarted = FALSE /\ successReported = FALSE
  /\ depth = 0 /\ reviewHolds = 0
  /\ poller = "none" /\ outcome = "None" /\ elapsed = 0 /\ drift = 0
  /\ tick = 0 /\ sleeps = 0 /\ pred = FALSE /\ satisfiedBy = "none"
  /\ btns = <<>> /\ readyIdx = 0 /\ clickedIdx = 0 /\ handleTick = 0
  /\ clickRaised = FALSE /\ clickFails = 0

Init == XIdle /\ AuxIdle /\ WStart

-----------------------------------------------------------------------------
(* The URL of the page, and waitFiveMinutesOnFinalURL *)

\* A URL is modelled by the set of the markers it contains, of those the
\* code tests with includes().
Urls ==
  {{}, {"/upload"}, {"/outline"}, {"/presentation"}, {"/presentation", "id="},
   {"/slides"}, {"/view"}, {"/final"}, {"/display"}}

\* the URL test of the render wait: '/final' and '/display' count as well
OnRenderedUrl(u) ==
  u \cap {"/presentation", "/slides", "/view", "/final", "/display"} # {}

\* mutant: '/final' and '/display' hold the page for review as well
OnReviewUrlOrFinal(u) ==
  u \cap {"/presentation", "/slides", "/view", "/final", "/display"} # {}

\* currentUrl.includes('/presentation') || ('/slides') || ('/view')
OnReviewUrl(u) == u \cap {"/presentation", "/slides", "/view"} # {}

\* currentUrl.includes('/presentation') && currentUrl.includes('id=')
OnRedirectedUrl(u) == "/presentation" \in u /\ "id=" \in u

\* the waits of the hold: for (let i = 0; i < 300; i++) waitForTimeout(1000)
reviewHoldWaits == 300

HInit ==
  /\ XIdle /\ WIdle /\ CIdle /\ KIdle /\ VIdle /\ EIdle /\ StepIdle
  /\ hpc = "check" /\ hurl \in Urls /\ hwaits = 0

\* the test of the URL
HoldCheck ==
  /\ hpc = "check"
  /\ hpc' = IF OnReviewUrl(hurl) THEN "hold" ELSE "done"
  /\ UNCHANGED <<hurl, hwaits, xvars, wvars, cvars, kvars, vvars, evars,
               stepvars>>

\* one pass of the loop: waitForTimeout(1000)
HoldWait ==
  /\ hpc = "hold" /\ hwaits < reviewHoldWaits
  /\ hwaits' = hwaits + 1
  /\ UNCHANGED <<hpc, hurl, xvars, wvars, cvars, kvars, vvars, evars,
               stepvars>>

HoldEnd ==
  /\ hpc = "hold" /\ ~(hwaits < reviewHoldWaits)
  /\ hpc' = "done"
  /\ UNCHANGED <<hurl, hwaits, xvars, wvars, cvars, kvars, vvars, evars,
               stepvars>>

HNext == HoldCheck \/ HoldWait \/ HoldEnd

SpecHold == HInit /\ [][HNext]_vars

\* the whole call, as a step of the workflow
ReviewHold(u) ==
  reviewHolds' = IF OnReviewUrl(u) THEN reviewHolds + 1 ELSE reviewHolds

-----------------------------------------------------------------------------
(* The front part of sendPromptAndGetResponse: handleLoginIfRequired, the  *)
(* chat-input cascade with selectUWATKnowledge, and the send               *)

\* the credential variables a configuration may set
CredentialVars == {"OPENWEBUI_USERNAME", "OPENWEBUI_EMAIL", "OPENWEBUI_PASSWORD"}

\* what handleLoginIfRequired can find: a login URL (/auth, /login, /signin),
\* a chat indicator, a login indicator, a signup button
PageFacts == {"loginUrl", "chat", "login", "signup"}

\* const username = process.env.OPENWEBUI_USERNAME; ... if (username && password)
HasCredentials(e) == "OPENWEBUI_USERNAME" \in e /\ "OPENWEBUI_PASSWORD" \in e

\* mutant: the chat indicators are tested before the URL
LoginPathChatFirst(e, pg) ==
  IF "chat" \in pg THEN "chat"
  ELSE IF "loginUrl" \in pg \/ "login" \in pg
       THEN (IF HasCredentials(e) THEN "performLogin" ELSE "signup")
       ELSE "unknown"

\* mutant: without credentials no branch is taken
LoginPathNoSignup(e, pg) ==
  IF "loginUrl" \in pg
  THEN (IF HasCredentials(e) THEN "performLogin" ELSE "unknown")
  ELSE IF "chat" \in pg THEN "chat"
  ELSE IF "login" \in pg
       THEN (IF HasCredentials(e) THEN "performLogin" ELSE "unknown")
       ELSE "unknown"

\* the branch handleLoginIfRequired takes: "performLogin", "signup"
\* (handleSignupIfNeeded), "chat" (chat interface detected, return) or
\* "unknown" (no clear indicators, continue)
LoginPath(e, pg) ==
  IF "loginUrl" \in pg
  THEN (IF HasCredentials(e) THEN "performLogin" ELSE "signup")
  ELSE IF "chat" \in pg THEN "chat"
  ELSE IF "login" \in pg
       THEN (IF HasCredentials(e) THEN "performLogin" ELSE "signup")
       ELSE "unknown"

CInit ==
  /\ XIdle /\ WIdle /\ HIdle /\ KIdle /\ VIdle /\ EIdle /\ StepIdle
  /\ cpc = "login"
  /\ env \in SUBSET CredentialVars
  /\ lpage \in SUBSET PageFacts
  /\ candidates \in 0..MaxInputs
  /\ loginPath = "none" /\ loginEnd = NoLogin /\ inputText = <<>>
  /\ kRaised = FALSE /\ otherRaised = FALSE /\ sent = FALSE
  /\ sendIdx = 0 /\ buttonClicks = 0 /\ enterPresses = 0

\* the places of performLogin outside its three guarded loops at which a
\* call can raise: the Enter key, the success indicators, the look at the
\* error messages
LoginRaisePoints == {"none", "enter", "successIndicators", "errorText"}

\* how performLogin goes: both fields filled or not, a login button clicked
\* or not, where a call raises, and what the page shows afterwards
PerformLogin(filled, clicked, raisesAt, loginSuccess, stillOnLogin) ==
  [filled |-> filled, clicked |-> clicked,
   end |-> IF raisesAt = "enter" /\ ~clicked THEN "raised"
           ELSE IF raisesAt = "successIndicators" THEN "raised"
           ELSE IF loginSuccess THEN "success"
           ELSE IF ~stillOnLogin THEN "left"
           ELSE IF raisesAt = "errorText" THEN "raised"
           ELSE "stillOnLogin"]

\* mutant: an error raised inside performLogin leaves it
AfterLoginPropagates(l) == IF l.end = "raised" THEN "failed" ELSE "input"

\* catch (error) { console.log('Login failed with error:', error) }: the
\* method returns, and sendPromptAndGetResponse goes on to the chat input
AfterLogin(l) == "input"

\* handleLoginIfRequired: performLogin and handleSignupIfNeeded catch what
\* their actions raise, so every branch returns to the cascade
ChatLoginCheck ==
  /\ cpc = "login"
  /\ loginPath' = LoginPath(env, lpage)
  /\ IF LoginPath(env, lpage) = "performLogin"
     THEN \E filled, clicked, loginSuccess, stillOnLogin \in BOOLEAN,
             raisesAt \in LoginRaisePoints :
            /\ loginEnd' = PerformLogin(filled, clicked, raisesAt,
                                        loginSuccess, stillOnLogin)
            /\ cpc' = AfterLogin(loginEnd')
     ELSE loginEnd' = loginEnd /\ cpc' = "input"
  /\ UNCHANGED <<env, lpage, candidates, inputText, kRaised, otherRaised, sent>>
  /\ UNCHANGED sendvars
  /\ UNCHANGED <<xvars, wvars, hvars, kvars, vvars, evars,
               stepvars>>

\* the selector that failed is given up: catch, continue
NextSelector ==
  /\ candidates' = candidates - 1
  /\ cpc' = "input"

\* the next selector with a match: click and fill(''); without one the
\* method throws 'Could not find chat input field'
ChatInputTry ==
  /\ cpc = "input"
  /\ IF candidates = 0
     THEN /\ cpc' = "failed"
          /\ UNCHANGED <<candidates, inputText, otherRaised>>
     ELSE \E raises \in BOOLEAN :
            IF raises
            THEN NextSelector /\ otherRaised' = TRUE /\ UNCHANGED inputText
            ELSE /\ inputText' = <<>>
                 /\ cpc' = "knowledge"
                 /\ UNCHANGED <<candidates, otherRaised>>
  /\ UNCHANGED <<env, lpage, loginPath, loginEnd, kRaised, sent, sendvars>>
  /\ UNCHANGED <<xvars, wvars, hvars, kvars, vvars, evars,
               stepvars>>

\* selectUWATKnowledge.  typed: type('#') went through; selected: the UWAT
\* option was visible and clicked; raises: an action of the try block
\* raised; cleanupRaises: fill('') of the catch block raised.
KnowledgeSelect ==
  /\ cpc = "knowledge"
  /\ \E typed, selected, raises, cleanupRaises \in BOOLEAN :
       /\ typed \/ raises
       /\ selected => typed
       /\ cleanupRaises => raises
       /\ IF ~raises
          THEN /\ inputText' = IF selected THEN <<"#UWAT", " ">> ELSE <<>>
               /\ cpc' = "prompt"
               /\ UNCHANGED <<candidates, kRaised>>
          ELSE /\ kRaised' = TRUE
               /\ IF cleanupRaises
                  THEN /\ NextSelector
                       /\ inputText' = IF ~typed THEN <<>>
                                       ELSE IF selected THEN <<"#UWAT">>
                                       ELSE <<"#">>
                  ELSE /\ inputText' = <<>>
                       /\ cpc' = "prompt"
                       /\ UNCHANGED candidates
  /\ UNCHANGED <<env, lpage, loginPath, loginEnd, otherRaised, sent, sendvars>>
  /\ UNCHANGED <<xvars, wvars, hvars, kvars, vvars, evars,
               stepvars>>

\* element.type(prompt)
ChatPromptType ==
  /\ cpc = "prompt"
  /\ \E raises \in BOOLEAN :
       IF raises
       THEN NextSelector /\ otherRaised' = TRUE /\ UNCHANGED inputText
       ELSE /\ inputText' = Append(inputText, "prompt")
            /\ cpc' = "send"
            /\ UNCHANGED <<candidates, otherRaised>>
  /\ UNCHANGED <<env, lpage, loginPath, loginEnd, kRaised, sent, sendvars>>
  /\ UNCHANGED <<xvars, wvars, hvars, kvars, vvars, evars,
               stepvars>>

\* mutant: the flag of the send loop is never set
messageSentNever == FALSE

\* let messageSent: set after a click on a send button has completed
messageSent == buttonClicks > 0

\* one pass of the loop over sendButtonSelectors: count and click inside the
\* try; 'messageSent = true; break' after a click that completed
ChatSend ==
  /\ cpc = "send"
  /\ \E found \in {"absent", "clicked", "raises"} :
       IF found = "clicked"
       THEN /\ buttonClicks' = buttonClicks + 1
            /\ cpc' = "sendEnd"
            /\ sendIdx' = sendIdx + 1
       ELSE /\ sendIdx' = sendIdx + 1
            /\ cpc' = IF sendIdx + 1 < MaxSelectors THEN "send" ELSE "sendEnd"
            /\ UNCHANGED buttonClicks
  /\ UNCHANGED <<env, lpage, loginPath, loginEnd, candidates, inputText, kRaised,
                 otherRaised, sent, enterPresses>>
  /\ UNCHANGED <<xvars, wvars, hvars, kvars, vvars, evars,
               stepvars>>

\* if (!messageSent) page.keyboard.press('Enter'); the wait for the response
\* follows
ChatSendEnd ==
  /\ cpc = "sendEnd"
  /\ enterPresses' = IF messageSent THEN enterPresses ELSE enterPresses + 1
  /\ sent' = TRUE
  /\ cpc' = "done"
  /\ UNCHANGED <<env, lpage, loginPath, loginEnd, candidates, inputText, kRaised,
                 otherRaised, sendIdx, buttonClicks>>
  /\ UNCHANGED <<xvars, wvars, hvars, kvars, vvars, evars,
               stepvars>>

CNext ==
  \/ ChatLoginCheck \/ ChatInputTry \/ KnowledgeSelect \/ ChatPromptType
  \/ ChatSend \/ ChatSendEnd

SpecChat == CInit /\ [][CNext]_vars

-----------------------------------------------------------------------------
(* The selector cascades: a list of selectors tried in order until one     *)
(* gives an element the code accepts                                       *)

\* the selector lists of the workflow, by the name of their array
Cascades ==
  {"chatIndicators", "loginIndicators", "chatInputSelectors",
   "sendButtonSelectors", "successIndicators", "generateButtons",
   "generateButtonSelectors", "specificGenerateSelectors"}

\* An element a selector matches: "hidden" (not visible), "disabled"
\* (visible, disabled), "far" (visible and enabled, more than 200px above
\* the bottom of the page) or "ready" (visible, enabled, at the bottom).
ElementKinds == {"hidden", "disabled", "far", "ready"}

IsVisible(e) == e # "hidden"

IsEnabled(e) == e # "disabled"

\* click and fill wait for a visible, enabled element and raise without one
Clickable(e) == IsVisible(e) /\ IsEnabled(e)

\* the matches of one selector, in document order
ElementLists ==
  {<<>>} \cup {<<a>> : a \in ElementKinds}
         \cup {<<a, b>> : a \in ElementKinds, b \in ElementKinds}

\* the evaluation of one selector: locator(...).count() raises, or the
\* selector has the matches els
SelectorResults ==
  {[raises |-> TRUE, els |-> <<>>]}
    \cup {[raises |-> FALSE, els |-> l] : l \in ElementLists}

CascadeDoms == [1..MaxSelectors -> SelectorResults]

\* the loop body is inside try/catch
Guarded(c) == c # "successIndicators"

\* the loop acts on the element it accepts (click, fill, type)
Acts(c) ==
  c \in {"chatInputSelectors", "sendButtonSelectors", "generateButtons",
         "generateButtonSelectors", "specificGenerateSelectors"}

\* the loop goes through the instances with nth(i)
ScansInstances(c) ==
  c \in {"generateButtonSelectors", "specificGenerateSelectors"}

\* the test the loop makes on an instance before it acts on it
Accepts(c, e) ==
  CASE c = "generateButtons" -> IsEnabled(e)
    [] c = "generateButtonSelectors" -> IsEnabled(e) /\ IsVisible(e)
    [] c = "specificGenerateSelectors" ->
         IsEnabled(e) /\ IsVisible(e) /\ e = "ready"
    [] OTHER -> TRUE

\* the instance the loop body takes from the matches of one selector
\* (0: none): first(), or the first instance that passes the test
Pick(c, els) ==
  IF ScansInstances(c)
  THEN IF \E i \in 1..Len(els) : Accepts(c, els[i])
       THEN Min({i \in 1..Len(els) : Accepts(c, els[i])})
       ELSE 0
  ELSE IF Len(els) > 0 /\ Accepts(c, els[1]) THEN 1 ELSE 0

\* mutant: the loop goes on after an element was acted on
BreaksAfterFirstGoesOn == FALSE

\* inputFound = true; break (likewise messageSent, buttonClicked, return)
BreaksAfterFirst == TRUE

\* mutant: the chat-input cascade falls through like the others
OnExhaustedNeverThrows(c) ==
  IF ScansInstances(c) THEN "fallback" ELSE "exhausted"

\* what follows the loop when no selector gave an element
OnExhausted(c) ==
  CASE c = "chatInputSelectors" -> "threw"
    [] ScansInstances(c) -> "fallback"
    [] OTHER -> "exhausted"

KInit ==
  /\ XIdle /\ WIdle /\ HIdle /\ CIdle /\ VIdle /\ EIdle /\ StepIdle
  /\ kpc = "scan"
  /\ kname \in Cascades
  /\ kdom \in CascadeDoms
  /\ kidx = 1 /\ kclicks = <<>> /\ kend = "none"

\* one pass of the for loop over the selectors
CascadeStep ==
  /\ kpc = "scan" /\ kidx <= MaxSelectors
  /\ LET r == kdom[kidx]
         i == Pick(kname, r.els)
         goOn == /\ kidx' = kidx + 1
                 /\ UNCHANGED <<kpc, kend>>
     IN  IF r.raises
         THEN IF Guarded(kname)
              THEN goOn /\ UNCHANGED kclicks
              ELSE /\ kpc' = "done" /\ kend' = "raised"
                   /\ UNCHANGED <<kidx, kclicks>>
         ELSE IF i = 0
         THEN goOn /\ UNCHANGED kclicks
         ELSE IF ~Acts(kname)
         THEN /\ kpc' = "done" /\ kend' = "resolved"
              /\ UNCHANGED <<kidx, kclicks>>
         ELSE IF ~Clickable(r.els[i])
         THEN goOn /\ UNCHANGED kclicks
         ELSE /\ kclicks' = Append(kclicks, <<kidx, i>>)
              /\ IF BreaksAfterFirst
                 THEN kpc' = "done" /\ kend' = "resolved" /\ UNCHANGED kidx
                 ELSE goOn
  /\ UNCHANGED <<kname, kdom>>
  /\ UNCHANGED <<xvars, wvars, hvars, cvars, vvars, evars,
               stepvars>>

\* the code after the loop when the flag of the loop is not set
CascadeExhausted ==
  /\ kpc = "scan" /\ kidx > MaxSelectors
  /\ IF kclicks # <<>>
     THEN kpc' = "done" /\ kend' = "resolved"
     ELSE IF OnExhausted(kname) = "fallback"
     THEN kpc' = "fallback" /\ UNCHANGED kend
     ELSE kpc' = "done" /\ kend' = OnExhausted(kname)
  /\ UNCHANGED <<kname, kdom, kidx, kclicks>>
  /\ UNCHANGED <<xvars, wvars, hvars, cvars, vvars, evars,
               stepvars>>

\* the bottom-button search after the loop: page.evaluate lists the
\* buttons, and locator('button').nth(index) is clicked outside any try.
\* found: the list is not empty; rejected: the click raises, the button
\* having gone or become disabled after the list was made.
CascadeFallback ==
  /\ kpc = "fallback"
  /\ \E found, rejected \in BOOLEAN :
       /\ rejected => found
       /\ IF ~found
          THEN kend' = "exhausted" /\ UNCHANGED kclicks
          ELSE IF rejected
          THEN kend' = "clickRaised" /\ UNCHANGED kclicks
          ELSE kend' = "fallbackClicked" /\ kclicks' = <<<<0, 1>>>>
  /\ kpc' = "done"
  /\ UNCHANGED <<kname, kdom, kidx>>
  /\ UNCHANGED <<xvars, wvars, hvars, cvars, vvars, evars,
               stepvars>>

KNext == CascadeStep \/ CascadeExhausted \/ CascadeFallback

SpecCascade == KInit /\ [][KNext]_vars

-----------------------------------------------------------------------------
(* checkTemplateSelectionVisuals *)

\* what an element of the document can show: a text with a check mark or
\* the word 'check', a class name, a computed background colour or border,
\* an attribute
textSignals == {"text:U+2713", "text:U+2714", "text:check"}

classSignals == {"class:check", "class:selected", "class:active"}

styleSignals ==
  {"background:rgb(173, 216, 230)", "background:lightblue",
   "background:rgb(135, 206, 235)", "border:blue"}

attributeSignals == {"aria-selected", "aria-checked", "data-selected"}

Signals == textSignals \cup classSignals \cup styleSignals \cup attributeSignals

\* checkMarks.length > 0
hasCheckMarks(sig) == sig \cap (textSignals \cup classSignals) # {}

\* blueBackgrounds.length > 0
hasBlueBackgrounds(sig) ==
  sig \cap (styleSignals \cup {"class:selected", "class:active"}) # {}

\* visualIndicators.hasCheckMarks || visualIndicators.hasBlueBackgrounds
hasVisualConfirmation(sig) == hasCheckMarks(sig) \/ hasBlueBackgrounds(sig)

VInit ==
  /\ XIdle /\ WIdle /\ HIdle /\ CIdle /\ KIdle /\ EIdle /\ StepIdle
  /\ vpc = "check"
  /\ vsignals \in SUBSET Signals
  /\ vraises \in BOOLEAN
  /\ vresult = "none"

\* the call: page.evaluate inside try, return false from the catch
CheckVisuals ==
  /\ vpc = "check"
  /\ vresult' = IF vraises THEN "false"
                ELSE IF hasVisualConfirmation(vsignals) THEN "true"
                ELSE "false"
  /\ vpc' = "done"
  /\ UNCHANGED <<vsignals, vraises>>
  /\ UNCHANGED <<xvars, wvars, hvars, cvars, kvars, evars,
               stepvars>>

VNext == CheckVisuals

SpecVisual == VInit /\ [][VNext]_vars

-----------------------------------------------------------------------------
(* selectGeneralTemplate: three methods of finding and clicking the         *)
(* "General" template, each click followed by the visual check.  The page   *)
(* is read step by step, so each step draws what it finds on the page.      *)

\* the largest number of matches of a selector, and of elements of Method 3
MaxContainers == 2

\* selectors tried per method (templateContainerSelectors, clickableSelectors)
Method1Selectors == 1..MaxSelectors
Method2Selectors == 1..MaxSelectors

\* what a matched element does when it is clicked; a container of Method 1
\* may also hold a button
ContainerKinds == {"plain", "withButton", "badButton", "unclickable"}

ElementTags == {"BUTTON", "DIV", "SPAN"}

\* an entry of allGeneralElements: its tag and whether its class names
\* include 'template'
GeneralElements == [tagName : ElementTags, template : BOOLEAN]

\* the score of the sort of Method 3
Score(el) ==
  (IF el.tagName = "BUTTON" THEN 10 ELSE 0) + (IF el.template THEN 5 ELSE 0)

\* sortedElements[0] of a stable descending sort: the first entry of the
\* highest score, by its position in the list
TargetPos(els) ==
  Min({ i \in 1..Len(els) :
          \A j \in 1..Len(els) : Score(els[j]) <= Score(els[i]) })

\* page.locator(tagName).count() on a page that holds the entries of els and
\* extra more elements of that tag
TagCount(els, tag, extra) ==
  Cardinality({ i \in 1..Len(els) : els[i].tagName = tag }) + extra

\* locator.nth(index) designates an element
Resolves(t) == t.count > t.index

MethodAfter(m) == IF m = "method1" THEN "method2" ELSE "method3"

SelectorsOf(m) == IF m = "method1" THEN Method1Selectors ELSE Method2Selectors

TInit ==
  /\ XIdle /\ WIdle /\ HIdle /\ CIdle /\ KIdle /\ VIdle /\ EIdle
  /\ UIdle /\ MIdle /\ FIdle
  /\ tpc = "method1" /\ tsel = 1 /\ tleft = 0 /\ tclicks = 0 /\ tfalse = 0
  /\ tselected = FALSE /\ ttarget = NoTarget /\ tend = "none"

\* the loop over the selectors goes to the next one, or the method is over
\* and the next method starts ('if (!templateSelected)')
NextTemplateSelector ==
  /\ tleft' = 0
  /\ IF tsel + 1 \in SelectorsOf(tpc)
     THEN tsel' = tsel + 1 /\ UNCHANGED tpc
     ELSE tsel' = 1 /\ tpc' = MethodAfter(tpc)

\* the flag is set: both loops break, the later methods are skipped
TemplateConfirmed ==
  /\ tselected' = TRUE /\ tpc' = "done" /\ tend' = "returned"
  /\ tleft' = 0 /\ UNCHANGED tsel

\* locator(selector).count() of Methods 1 and 2, inside the try of the
\* selector
TemplateSelectorCount ==
  /\ tpc \in {"method1", "method2"} /\ tleft = 0
  /\ \E raises \in BOOLEAN, count \in 0..MaxContainers :
       IF raises \/ count = 0
       THEN NextTemplateSelector
       ELSE tleft' = count /\ UNCHANGED <<tpc, tsel>>
  /\ UNCHANGED <<tclicks, tfalse, tselected, ttarget, tend>>
  /\ UNCHANGED <<basevars, uvars, mvars, fvars>>

\* one pass of the inner loop: click the match and check; in Method 1, when
\* the check returns false and the container holds a button, click the button
\* and check again.  A click that raises ends the selector (its catch).
TemplateContainerTry ==
  /\ tpc \in {"method1", "method2"} /\ tleft > 0
  /\ \E kind \in ContainerKinds, isSelected, isSelectedAgain \in BOOLEAN :
       LET goOn == IF tleft = 1 THEN NextTemplateSelector
                   ELSE tleft' = tleft - 1 /\ UNCHANGED <<tpc, tsel>>
           second == tpc = "method1" /\ kind \in {"withButton", "badButton"}
       IN  IF kind = "unclickable"
           THEN /\ NextTemplateSelector
                /\ UNCHANGED <<tclicks, tfalse, tselected, tend>>
           ELSE IF isSelected
           THEN /\ tclicks' = tclicks + 1 /\ TemplateConfirmed
                /\ UNCHANGED tfalse
           ELSE IF ~second
           THEN /\ tclicks' = tclicks + 1 /\ tfalse' = tfalse + 1 /\ goOn
                /\ UNCHANGED <<tselected, tend>>
           ELSE IF kind = "badButton"
           THEN /\ tclicks' = tclicks + 1 /\ tfalse' = tfalse + 1
                /\ NextTemplateSelector
                /\ UNCHANGED <<tselected, tend>>
           ELSE IF isSelectedAgain
           THEN /\ tclicks' = tclicks + 2 /\ tfalse' = tfalse + 1
                /\ TemplateConfirmed
           ELSE /\ tclicks' = tclicks + 2 /\ tfalse' = tfalse + 2 /\ goOn
                /\ UNCHANGED <<tselected, tend>>
  /\ UNCHANGED ttarget
  /\ UNCHANGED <<basevars, uvars, mvars, fvars>>

\* Method 3: the entries of allGeneralElements are sorted, the first is
\* clicked through page.locator(tagName).nth(index) outside any try, and the
\* check runs once
TemplateMethod3 ==
  /\ tpc = "method3"
  /\ \E els \in SeqsUpTo(GeneralElements, MaxContainers), extra \in 0..1,
        isSelected \in BOOLEAN :
       IF els = <<>>
       THEN /\ tend' = "returned"
            /\ UNCHANGED <<tclicks, tfalse, tselected, ttarget>>
       ELSE LET pos == TargetPos(els)
                t == [index |-> pos - 1,
                      count |-> TagCount(els, els[pos].tagName, extra)]
            IN  /\ ttarget' = t
                /\ IF ~Resolves(t)
                   THEN /\ tend' = "threw"
                        /\ UNCHANGED <<tclicks, tfalse, tselected>>
                   ELSE /\ tclicks' = tclicks + 1
                        /\ tend' = "returned"
                        /\ tselected' = isSelected
                        /\ tfalse' = IF isSelected THEN tfalse ELSE tfalse + 1
  /\ tpc' = "done"
  /\ UNCHANGED <<tsel, tleft>>
  /\ UNCHANGED <<basevars, uvars, mvars, fvars>>

TNext == TemplateSelectorCount \/ TemplateContainerTry \/ TemplateMethod3

SpecTemplate == TInit /\ [][TNext]_vars

-----------------------------------------------------------------------------
(* handlePresentonUploadInterface and tryAlternativeUploadMethods: the      *)
(* search for a text input, and the call of the method by itself after a    *)
(* content button was clicked.                                              *)

\* the largest number of calls the model counts; later calls leave the
\* counter where it is
MaxCalls == 2

\* what a selector of textInputSelectors does on the page
InputKinds == {"absent", "fillable", "raises"}

\* what a selector of actionButtons does on the page
ActionButtonKinds == {"absent", "clickable", "raises"}

UploadPages ==
  [inputs : [1..MaxSelectors -> InputKinds],
   buttons : [1..MaxSelectors -> ActionButtonKinds]]

UInit ==
  /\ XIdle /\ WIdle /\ HIdle /\ CIdle /\ KIdle /\ VIdle /\ EIdle
  /\ TIdle /\ MIdle /\ FIdle
  /\ upc = "inputs" /\ uidx = 1 /\ ucalls = 1
  /\ upage \in UploadPages

\* one pass of the loop over textInputSelectors: count, clear and fill inside
\* the try; 'inputFound = true; break' after a fill, and after the last
\* selector without one the call of tryAlternativeUploadMethods
UploadInputTry ==
  /\ upc = "inputs"
  /\ IF upage.inputs[uidx] = "fillable"
     THEN upc' = "buttonSearch" /\ uidx' = 0
     ELSE IF uidx < MaxSelectors
     THEN uidx' = uidx + 1 /\ UNCHANGED upc
     ELSE upc' = "alternatives" /\ uidx' = 1
  /\ UNCHANGED <<ucalls, upage>>
  /\ UNCHANGED <<basevars, tvars, mvars, fvars>>

\* one pass of the loop over actionButtons: a button that is found and
\* clicked may change the page, and handlePresentonUploadInterface is called
\* again; after the last selector the method returns to its caller, which
\* goes on to findAndClickGenerateButton
UploadAlternativeTry ==
  /\ upc = "alternatives"
  /\ IF upage.buttons[uidx] = "clickable"
     THEN /\ upage' \in UploadPages
          /\ upc' = "inputs" /\ uidx' = 1
          /\ ucalls' = IF ucalls < MaxCalls THEN ucalls + 1 ELSE ucalls
     ELSE /\ IF uidx < MaxSelectors
             THEN uidx' = uidx + 1 /\ UNCHANGED upc
             ELSE upc' = "buttonSearch" /\ uidx' = 0
          /\ UNCHANGED <<ucalls, upage>>
  /\ UNCHANGED <<basevars, tvars, mvars, fvars>>

UNext == UploadInputTry \/ UploadAlternativeTry

\* every step of the method is taken in the end: time advances
SpecUpload == UInit /\ [][UNext]_vars /\ WF_vars(UNext)

-----------------------------------------------------------------------------
(* main and the life of the browser and of the pages: initialize, the two   *)
(* stages of automateFullWorkflow with their finally blocks, the holds of   *)
(* main and automator.close().  What happens inside a stage is reduced to   *)
(* whether it returns or throws.                                            *)

\* for (let i = 0; i < 60; i++) of the success path
successHoldWaits == 60
\* for (let i = 0; i < 300; i++) of the catch block
debugHoldWaits == 300

\* mutant: the catch block holds no longer than the success path
HoldWaitsAlwaysShort(err) == successHoldWaits

\* the one-second waits main makes before the finally block
HoldWaits(err) == IF err = "none" THEN successHoldWaits ELSE debugHoldWaits

MInit ==
  /\ XIdle /\ WIdle /\ HIdle /\ CIdle /\ KIdle /\ VIdle /\ EIdle
  /\ TIdle /\ UIdle /\ FIdle
  /\ mcaller \in {"main", "direct"}
  /\ mpc = IF mcaller = "main" THEN "initialize" ELSE "extract"
  /\ browser = "null" /\ mpage = "none" /\ opened = 0 /\ closed = 0
  /\ merror = "none" /\ mwaits = 0

\* an error leaves automateFullWorkflow: the catch block of main, or the
\* caller that is not main
WorkflowThrows(err) ==
  /\ merror' = err
  /\ mpc' = IF mcaller = "main" THEN "hold" ELSE "thrown"

\* automator.initialize(): chromium.launch, which may raise
Initialize ==
  /\ mpc = "initialize"
  /\ \E launched \in BOOLEAN :
       IF launched
       THEN browser' = "open" /\ mpc' = "extract" /\ UNCHANGED merror
       ELSE WorkflowThrows("LaunchError") /\ UNCHANGED browser
  /\ UNCHANGED <<mcaller, mpage, opened, closed, mwaits>>
  /\ UNCHANGED <<basevars, tvars, uvars, fvars>>

\* the head of extractFromOpenWebUI and of createPresentationInPresenton:
\* the test of this.browser, then browser.newPage().  The error of the
\* extraction stage is caught by automateFullWorkflow (demo response).
StageOpen ==
  /\ mpc \in {"extract", "create"}
  /\ IF browser = "null"
     THEN /\ IF mpc = "extract"
             THEN mpc' = "create" /\ UNCHANGED merror
             ELSE WorkflowThrows("NotInitialized")
          /\ UNCHANGED <<mpage, opened>>
     ELSE /\ mpage' = IF mpc = "extract" THEN "extraction" ELSE "creation"
          /\ opened' = opened + 1
          /\ mpc' = IF mpc = "extract" THEN "extracting" ELSE "creating"
          /\ UNCHANGED merror
  /\ UNCHANGED <<mcaller, browser, closed, mwaits>>
  /\ UNCHANGED <<basevars, tvars, uvars, fvars>>

\* the stage returns or throws, and its finally block closes the page
StageEnd ==
  /\ mpc \in {"extracting", "creating"}
  /\ mpage' = "none" /\ closed' = closed + 1
  /\ \E threw \in BOOLEAN :
       IF mpc = "extracting"
       THEN mpc' = "create" /\ UNCHANGED merror
       ELSE IF threw THEN WorkflowThrows("CreationError")
       ELSE mpc' = (IF mcaller = "main" THEN "hold" ELSE "returned")
            /\ UNCHANGED merror
  /\ UNCHANGED <<mcaller, browser, opened, mwaits>>
  /\ UNCHANGED <<basevars, tvars, uvars, fvars>>

\* one pass of the hold loop of main, on the success path or in the catch
HoldTick ==
  /\ mpc = "hold"
  /\ IF mwaits < HoldWaits(merror)
     THEN mwaits' = mwaits + 1 /\ UNCHANGED mpc
     ELSE mpc' = "closing" /\ UNCHANGED mwaits
  /\ UNCHANGED <<mcaller, browser, mpage, opened, closed, merror>>
  /\ UNCHANGED <<basevars, tvars, uvars, fvars>>

\* finally { await automator.close() }: if (this.browser) browser.close()
AutomatorClose ==
  /\ mpc = "closing"
  /\ browser' = IF browser = "open" THEN "closed" ELSE browser
  /\ mpc' = "done"
  /\ UNCHANGED <<mcaller, mpage, opened, closed, merror, mwaits>>
  /\ UNCHANGED <<basevars, tvars, uvars, fvars>>

MNext == Initialize \/ StageOpen \/ StageEnd \/ HoldTick \/ AutomatorClose

\* time advances: every step of main is taken in the end
SpecMain == MInit /\ [][MNext]_vars /\ WF_vars(MNext)

-----------------------------------------------------------------------------
(* The bottom-button fallbacks of findAndClickFinalGenerateButton and of    *)
(* clickGeneratePresentationOnOutlinePage: page.evaluate lists the buttons  *)
(* with their index among all buttons, the closest to the bottom is chosen, *)
(* and after scrollIntoViewIfNeeded and a wait of one second the click goes *)
(* to page.locator('button').nth(index).  The page may change in between.   *)

\* nearBottom: distanceFromBottom <= 400 (final), <= 300 (outline)
finalNearBottom == 400
outlineNearBottom == 300

FallbackNames == {"final", "outline"}

\* a button of the page: an identity, its text, whether it is visible and
\* enabled, and its distance from the bottom of the page
PageButtons(ids) ==
  [id : ids, text : {"Generate Presentation", "Back"}, enabled : BOOLEAN,
   distance : {100, 350}]

\* the pages of at most n buttons; the identities follow the document order
RECURSIVE PagesUpTo(_)
PagesUpTo(n) ==
  IF n = 0 THEN { <<>> }
  ELSE LET shorter == PagesUpTo(n - 1)
       IN  shorter \cup
           { Append(d, b) : d \in { r \in shorter : Len(r) = n - 1 },
                            b \in PageButtons({n}) }

NearBottom(f, b) ==
  b.distance <= (IF f = "final" THEN finalNearBottom ELSE outlineNearBottom)

\* the text test of the outline fallback ('generate', 'create', 'build',
\* 'proceed', 'continue'); the final fallback takes any text
GenerateLike(f, b) == f = "final" \/ b.text = "Generate Presentation"

\* the filter of the list
Listed(f, d) ==
  { i \in 1..Len(d) : d[i].enabled /\ NearBottom(f, d[i]) /\ GenerateLike(f, d[i]) }

\* [0] of the list sorted by distanceFromBottom: the first of the closest
Closest(f, d) ==
  Min({ i \in Listed(f, d) :
          \A j \in Listed(f, d) : d[i].distance <= d[j].distance })

InsertAt(d, k, b) ==
  [i \in 1..(Len(d) + 1) |->
     IF i < k THEN d[i] ELSE IF i = k THEN b ELSE d[i - 1]]

RemoveAt(d, k) ==
  [i \in 1..(Len(d) - 1) |-> IF i < k THEN d[i] ELSE d[i + 1]]

FInit ==
  /\ XIdle /\ WIdle /\ HIdle /\ CIdle /\ KIdle /\ VIdle /\ EIdle
  /\ TIdle /\ UIdle /\ MIdle
  /\ fpc = "snapshot" /\ fname \in FallbackNames
  /\ fdom \in PagesUpTo(MaxButtons)
  /\ ftarget = NoButton /\ mutated = FALSE /\ fclicked = 0 /\ fend = "none"

\* page.evaluate: the list, and the choice of its first entry
FallbackSnapshot ==
  /\ fpc = "snapshot"
  /\ IF Listed(fname, fdom) = {}
     THEN fpc' = "done" /\ fend' = "nothing" /\ UNCHANGED ftarget
     ELSE LET i == Closest(fname, fdom) IN
          /\ ftarget' = [index |-> i, id |-> fdom[i].id]
          /\ fpc' = "waiting" /\ UNCHANGED fend
  /\ UNCHANGED <<fname, fdom, mutated, fclicked>>
  /\ UNCHANGED <<basevars, tvars, uvars, mvars>>

\* the page changes while the method scrolls and waits: a button is added
\* or removed
PageMutates ==
  /\ fpc = "waiting" /\ ~mutated
  /\ \/ \E k \in 1..(Len(fdom) + 1), b \in PageButtons({MaxButtons + 1}) :
          fdom' = InsertAt(fdom, k, b)
     \/ \E k \in 1..Len(fdom) : fdom' = RemoveAt(fdom, k)
  /\ mutated' = TRUE
  /\ UNCHANGED <<fpc, fname, ftarget, fclicked, fend>>
  /\ UNCHANGED <<basevars, tvars, uvars, mvars>>

\* buttonLocator.click(): the locator is resolved when the click is made
FallbackClick ==
  /\ fpc = "waiting"
  /\ IF ftarget.index > Len(fdom) \/ ~fdom[ftarget.index].enabled
     THEN fend' = "raised" /\ UNCHANGED fclicked
     ELSE fend' = "clicked" /\ fclicked' = fdom[ftarget.index].id
  /\ fpc' = "done"
  /\ UNCHANGED <<fname, fdom, ftarget, mutated>>
  /\ UNCHANGED <<basevars, tvars, uvars, mvars>>

FNext == FallbackSnapshot \/ PageMutates \/ FallbackClick

SpecFallback == FInit /\ [][FNext]_vars

-----------------------------------------------------------------------------
(* The polling loops: their deadlines and intervals, in ms *)

\* waitForLLMResponse
responseMaxWait == 120000
responseInterval == 2000
\* waitForPresentationGeneration, outline loop
outlineAttempts == 60
outlineInterval == 1000
\* waitForGeneratePresentationButtonToBeReady
buttonMaxWait == 900000
buttonInterval == 10000
beforeClickWait == 1000
afterClickWait == 3000
\* waitForFinalPresentationReady
finalMaxWait == 180000
finalInterval == 3000
\* waitForPresentationPageRedirect
redirectMaxWait == 60000
redirectInterval == 2000
\* waitForSpinningWheelToDisappear
renderMaxWait == 300000
renderInterval == 2000

Pollers == {"response", "outline", "button", "final", "redirect", "render"}

\* the step of the workflow at which each loop runs
PcOf(p) ==
  CASE p = "response" -> "ResponseWait"
    [] p = "outline" -> "OutlineWait"
    [] p = "button" -> "GenerateWait"
    [] p = "final" -> "FinalReadyWait"
    [] p = "redirect" -> "RedirectWait"
    [] p = "render" -> "RenderWait"
    [] OTHER -> "none"

MaxWaitOf(p) ==
  CASE p = "response" -> responseMaxWait
    [] p = "button" -> buttonMaxWait
    [] p = "final" -> finalMaxWait
    [] p = "redirect" -> redirectMaxWait
    [] p = "render" -> renderMaxWait
    [] OTHER -> 0

IntervalOf(p) ==
  CASE p = "response" -> responseInterval
    [] p = "outline" -> outlineInterval
    [] p = "button" -> buttonInterval
    [] p = "final" -> finalInterval
    [] p = "redirect" -> redirectInterval
    [] p = "render" -> renderInterval
    [] OTHER -> 0

\* mutant: the loop gives up one interval before its deadline
ExpiredEarly(p) ==
  IF p = "outline" THEN tick >= outlineAttempts - 1
  ELSE elapsed + IntervalOf(p) >= MaxWaitOf(p)

\* the loop head: while (Date.now() - startTime < maxWaitTime ...), and
\* for (let i = 0; i < 60; i++) of the outline loop
Expired(p) ==
  IF p = "outline" THEN tick >= outlineAttempts
  ELSE elapsed >= MaxWaitOf(p)

\* const startTime = Date.now(), and the flags of the loop
StartPoll(p) ==
  /\ poller' = p /\ outcome' = "Pending"
  /\ elapsed' = 0 /\ drift' = 0 /\ tick' = 0 /\ sleeps' = 0 /\ pred' = FALSE
  /\ satisfiedBy' = "none"

\* by how much the sleeps of one tick may overrun
Jitters == 0 .. (MaxDrift - drift)

\* the test of the completion predicate that set the flag of the loop
By(test) == satisfiedBy' = test

\* mutant: every pass of a loop sleeps once before it evaluates
TickResultSleepsFirst(o, p, ms, n, j) ==
  /\ outcome' = o /\ pred' = p /\ tick' = tick + 1
  /\ elapsed' = elapsed + ms + j /\ drift' = drift + j
  /\ sleeps' = sleeps + n + 1
  /\ poller' = poller

\* one pass of a loop body: the predicate evaluated to p, the loop is left
\* with outcome o, after n waitForTimeout calls of ms in total (overrun j).
\* On a Presenton page that stalls no completion test of the creation stage
\* ever succeeds.
TickResult(o, p, ms, n, j) ==
  /\ (pageStalls /\ poller # "response") => o # "Satisfied"
  /\ outcome' = o /\ pred' = p /\ tick' = tick + 1
  /\ elapsed' = elapsed + ms + j /\ drift' = drift + j
  /\ sleeps' = sleeps + n
  /\ poller' = poller

Running(p) == pc = PcOf(p) /\ poller = p /\ outcome = "Pending" /\ ~Expired(p)

\* the loop is left: its flag is set, or its deadline has passed
Leaving(p) ==
  /\ pc = PcOf(p) /\ poller = p
  /\ outcome = "Satisfied" \/ (outcome = "Pending" /\ Expired(p))

\* mutant: a loop that times out throws
AfterPollTimeoutThrows(p, o) ==
  IF o = "TimedOut" THEN "Failed"
  ELSE CASE p = "response" -> "ResponseExtract"
         [] p = "outline" -> "TemplateSelectCheck"
         [] p = "button" -> "FinalGenerateClick"
         [] p = "final" -> "OutlineGenerateClick"
         [] p = "redirect" -> "RenderEnter"
         [] OTHER -> "Return"

\* the step that follows a loop left with outcome o
AfterPoll(p, o) ==
  CASE p = "response" -> "ResponseExtract"
    [] p = "outline" -> "TemplateSelectCheck"
    [] p = "button" -> "FinalGenerateClick"
    [] p = "final" -> "OutlineGenerateClick"
    [] p = "redirect" -> "RenderEnter"
    [] OTHER -> "Return"

\* mutant: the page is left open
PageLeftOpen(pg) == pg

\* finally { await page.close() }
PageAfterClose(pg) == "none"

\* mutant: an error of page.screenshot leaves the step
AfterSnapshotPropagates(failed, then) ==
  IF failed THEN "SnapshotError" ELSE then

\* try { await this.page.screenshot(...) } catch (error) { console.log }:
\* what follows, or what is rethrown, is what it was without the screenshot
AfterSnapshot(failed, then) == then

\* the waits whose code after the loop takes a screenshot
SnapshotAfter == {"response", "button", "final", "render"}

\* the code after the loop: the outcome it logs, the screenshot, and the
\* next step
LeavePoll(p) ==
  LET o == IF outcome = "Satisfied" THEN "Satisfied" ELSE "TimedOut"
  IN  /\ outcome' = o
      /\ pc' = IF p \in SnapshotAfter
               THEN AfterSnapshot(snapshotsFail, AfterPoll(p, o))
               ELSE AfterPoll(p, o)

ResetButtons ==
  /\ btns' = <<>> /\ readyIdx' = 0 /\ clickedIdx' = 0 /\ handleTick' = 0
  /\ clickRaised' = FALSE /\ clickFails' = 0

-----------------------------------------------------------------------------
(* The extraction stage: extractFromOpenWebUI, sendPromptAndGetResponse *)

\* mutant: the failure of the extraction stage ends the workflow
AfterExtractionFailureAbort == "Failed"

\* the catch block of automateFullWorkflow goes on to Step 2
AfterExtractionFailure == "Parse"

\* sendPromptAndGetResponse throws: finally page.close(), then the catch
\* block of automateFullWorkflow takes the demo response
ExtractionStageFails(err) ==
  /\ extractError' = err
  /\ page' = PageAfterClose(page)
  /\ llmSource' = "demo"
  /\ pc' = AfterExtractionFailure
  /\ UNCHANGED <<createError, creationStarted, successReported, depth>>

ExtractOpen ==
  /\ pc = "Start"
  /\ page' = "extraction"
  /\ pc' = "LoginCheck"
  /\ UNCHANGED <<llmSource, extractError, createError, creationStarted,
                 successReported, depth, pollvars, btnvars, xvars,
                 auxvars, reviewHolds>>

\* handleLoginIfRequired returns on every path
LoginCheck ==
  /\ pc = "LoginCheck"
  /\ pc' = "PromptSubmit"
  /\ UNCHANGED <<page, llmSource, extractError, createError, creationStarted,
                 successReported, depth, pollvars, btnvars, xvars,
                 auxvars, reviewHolds>>

\* the chat input cascade, the send, and the start of waitForLLMResponse
PromptSubmit ==
  /\ pc = "PromptSubmit"
  /\ \E inputFound \in BOOLEAN :
       IF inputFound
       THEN /\ pc' = "ResponseWait"
            /\ StartPoll("response")
            /\ UNCHANGED <<page, llmSource, extractError, createError,
                           creationStarted, successReported, depth>>
       ELSE /\ ExtractionStageFails("ChatInputNotFound")
            /\ UNCHANGED pollvars
  /\ UNCHANGED <<btnvars, xvars,
                 auxvars, reviewHolds>>

ResponseTick ==
  /\ Running("response")
  /\ \E followUp, indicators, textHint, raises \in BOOLEAN, j \in Jitters :
       IF followUp THEN TickResult("Satisfied", TRUE, 0, 0, 0) /\ By("followUp")
       ELSE IF ~indicators /\ raises THEN TickResult("Error", FALSE, 0, 0, 0) /\ By("none")
       ELSE IF ~indicators /\ textHint THEN TickResult("Satisfied", TRUE, 0, 0, 0) /\ By("pageText")
       ELSE TickResult("Pending", FALSE, responseInterval, 1, j) /\ By("none")
  /\ UNCHANGED <<flowvars, btnvars, xvars, auxvars>>

ResponseWaitEnd ==
  /\ Leaving("response")
  /\ LeavePoll("response")
  /\ UNCHANGED <<page, llmSource, extractError, createError, creationStarted,
                 successReported, depth>>
  /\ UNCHANGED <<poller, elapsed, drift, tick, sleeps, pred, satisfiedBy,
                 btnvars, xvars,
                 auxvars, reviewHolds>>

\* page.evaluate raised inside the loop of waitForLLMResponse
ResponseWaitThrows ==
  /\ pc = "ResponseWait" /\ outcome = "Error"
  /\ ExtractionStageFails("DomError")
  /\ UNCHANGED <<pollvars, btnvars, xvars,
                 auxvars, reviewHolds>>

\* extractLatestResponse returns a text or throws
ResponseExtract ==
  /\ pc = "ResponseExtract"
  /\ \E extracted \in BOOLEAN :
       IF extracted
       THEN /\ llmSource' = "extracted"
            /\ page' = PageAfterClose(page)
            /\ pc' = "Parse"
            /\ UNCHANGED <<extractError, createError, creationStarted,
                           successReported, depth>>
       ELSE ExtractionStageFails("ExtractionFailed")
  /\ UNCHANGED <<pollvars, btnvars, xvars,
                 auxvars, reviewHolds>>

\* Step 2: parseResponseToPresentationData
Parse ==
  /\ pc = "Parse"
  /\ pc' = "CreateOpen"
  /\ UNCHANGED <<page, llmSource, extractError, createError, creationStarted,
                 successReported, depth, pollvars, btnvars, xvars,
                 auxvars, reviewHolds>>

-----------------------------------------------------------------------------
(* The creation stage: createPresentationInPresenton, createPresentation *)

\* createPresentation rethrows: finally page.close(), and the error leaves
\* automateFullWorkflow
CreationFails(err) ==
  /\ createError' = AfterSnapshot(snapshotsFail, err)
  /\ page' = PageAfterClose(page)
  /\ pc' = "Failed"
  /\ UNCHANGED <<llmSource, extractError, creationStarted, successReported,
                 depth>>

\* Step 3: a new page, and the navigation to the upload page
CreateOpen ==
  /\ pc = "CreateOpen"
  /\ creationStarted' = TRUE
  /\ \E navigated \in BOOLEAN :
       IF navigated
       THEN /\ page' = "creation"
            /\ pc' = "ContentFill"
            /\ UNCHANGED <<llmSource, extractError, createError,
                           successReported, depth>>
       ELSE /\ createError' = AfterSnapshot(snapshotsFail, "NavigationError")
            /\ page' = PageAfterClose(page)
            /\ pc' = "Failed"
            /\ UNCHANGED <<llmSource, extractError, successReported, depth>>
  /\ UNCHANGED <<pollvars, btnvars, xvars,
                 auxvars, reviewHolds>>

\* handlePresentonUploadInterface up to the button search.  Without an
\* input field, a content button that is found is clicked and the method
\* calls itself; the calling frame goes on when the inner call returns.
ContentFill ==
  /\ pc = "ContentFill"
  /\ \E inputFound, contentButton \in BOOLEAN :
       IF inputFound \/ ~contentButton \/ depth >= MaxDepth
       THEN pc' = "GenerateClick" /\ depth' = depth
       ELSE pc' = "ContentFill" /\ depth' = depth + 1
  /\ UNCHANGED <<page, llmSource, extractError, createError, creationStarted,
                 successReported, pollvars, btnvars, xvars,
                 auxvars, reviewHolds>>

\* findAndClickGenerateButton, then the start of waitForPresentationGeneration
GenerateClick ==
  /\ pc = "GenerateClick"
  /\ pc' = "OutlineWait"
  /\ StartPoll("outline")
  /\ UNCHANGED <<page, llmSource, extractError, createError, creationStarted,
                 successReported, depth, btnvars, xvars,
                 auxvars, reviewHolds>>

\* the outline loop sleeps, then reads the URL
OutlineTick ==
  /\ Running("outline")
  /\ \E url \in Urls, j \in Jitters :
       IF "/outline" \in url THEN TickResult("Satisfied", TRUE, outlineInterval, 1, j) /\ By("url")
       ELSE TickResult("Pending", FALSE, outlineInterval, 1, j) /\ By("none")
  /\ UNCHANGED <<flowvars, btnvars, xvars, auxvars>>

OutlineWaitEnd ==
  /\ Leaving("outline")
  /\ LeavePoll("outline")
  /\ UNCHANGED <<page, llmSource, extractError, createError, creationStarted,
                 successReported, depth>>
  /\ UNCHANGED <<poller, elapsed, drift, tick, sleeps, pred, satisfiedBy,
                 btnvars, xvars,
                 auxvars, reviewHolds>>

\* handleTemplateSelectionWorkflow: the button wait runs only after the
\* General template was found and clicked
TemplateSelectCheck ==
  /\ pc = "TemplateSelectCheck"
  /\ \E hasTemplateOptions, templateSelected \in BOOLEAN :
       IF hasTemplateOptions /\ templateSelected
       THEN pc' = "GenerateWait" /\ StartPoll("button")
       ELSE pc' = "FinalGenerateClick" /\ UNCHANGED pollvars
  /\ ResetButtons
  /\ UNCHANGED <<page, llmSource, extractError, createError, creationStarted,
                 successReported, depth, xvars,
                 auxvars, reviewHolds>>

\* the buttons a snapshot of the page can show
LoadingButton == [text |-> "Loading...", enabled |-> FALSE, visible |-> TRUE]

Buttons ==
  {LoadingButton,
   [text |-> "Generate Presentation", enabled |-> TRUE, visible |-> TRUE],
   [text |-> "Generate Presentation", enabled |-> FALSE, visible |-> TRUE],
   [text |-> "Generate Presentation", enabled |-> TRUE, visible |-> FALSE]}

ButtonSnapshots == SeqsUpTo(Buttons, MaxButtons)

\* text.includes('generate') || 'create' || 'build', and 'presentation'
IsGenerateText(t) == t = "Generate Presentation"

\* the first state of buttonStates (the visible buttons) that is a generate
\* button and enabled; 0 if there is none
ReadyIndex(d) ==
  LET ready == {i \in 1..Len(d) :
                  d[i].visible /\ IsGenerateText(d[i].text) /\ d[i].enabled}
  IN  IF ready = {} THEN 0 ELSE Min(ready)

\* mutant: the click goes to the last button with the text t
ClickTargetLastMatch(d, t) == Max({i \in 1..Len(d) : d[i].text = t})

\* the first button of page.locator('button').all() with the text t
ClickTarget(d, t) == Min({i \in 1..Len(d) : d[i].text = t})

\* a click needs its target visible and enabled
Actionable(b) == b.visible /\ b.enabled

\* one pass of the loop: the snapshot of the buttons, and the click on the
\* first ready one.  A click that raises is caught and the loop goes on.
ButtonTick ==
  /\ Running("button")
  /\ \E d \in ButtonSnapshots, raises \in BOOLEAN :
       IF raises
       THEN /\ d = <<>>
            /\ TickResult("Error", FALSE, 0, 0, 0) /\ By("none")
            /\ UNCHANGED btnvars
       ELSE LET r == ReadyIndex(d) IN
            IF r = 0
            THEN /\ \E j \in Jitters :
                      TickResult("Pending", FALSE, buttonInterval, 1, j) /\ By("none")
                 /\ btns' = <<>> /\ readyIdx' = 0 /\ clickedIdx' = 0
                 /\ handleTick' = 0 /\ clickRaised' = FALSE
                 /\ UNCHANGED clickFails
            ELSE LET c == ClickTarget(d, d[r].text) IN
                 /\ handleTick' = tick + 1
                 /\ \E rejected \in BOOLEAN, j \in Jitters :
                      IF ~Actionable(d[c]) \/ rejected
                      THEN /\ clickFails < MaxClickFails
                           /\ TickResult("Pending", TRUE,
                                         beforeClickWait + buttonInterval, 2, j) /\ By("none")
                           /\ btns' = <<>> /\ readyIdx' = 0 /\ clickedIdx' = 0
                           /\ clickRaised' = TRUE
                           /\ clickFails' = clickFails + 1
                      ELSE /\ TickResult("Satisfied", TRUE,
                                         beforeClickWait + afterClickWait, 2, j) /\ By("click")
                           /\ btns' = d /\ readyIdx' = r /\ clickedIdx' = c
                           /\ clickRaised' = FALSE
                           /\ clickFails' = clickFails
  /\ UNCHANGED <<flowvars, xvars, auxvars>>

GenerateWaitEnd ==
  /\ Leaving("button")
  /\ LeavePoll("button")
  /\ ResetButtons
  /\ UNCHANGED <<page, llmSource, extractError, createError, creationStarted,
                 successReported, depth>>
  /\ UNCHANGED <<poller, elapsed, drift, tick, sleeps, pred, satisfiedBy,
                 xvars,
                 auxvars, reviewHolds>>

\* findAndClickFinalGenerateButton, then waitForFinalPresentationReady
FinalGenerateClick ==
  /\ pc = "FinalGenerateClick"
  /\ pc' = "FinalReadyWait"
  /\ StartPoll("final")
  /\ UNCHANGED <<page, llmSource, extractError, createError, creationStarted,
                 successReported, depth, btnvars, xvars,
                 auxvars, reviewHolds>>

FinalTick ==
  /\ Running("final")
  /\ \E url \in Urls, raises, hasCompleted \in BOOLEAN, j \in Jitters :
       IF OnReviewUrl(url) THEN TickResult("Satisfied", TRUE, 0, 0, 0) /\ By("url")
       ELSE IF raises THEN TickResult("Error", FALSE, 0, 0, 0) /\ By("none")
       ELSE IF hasCompleted THEN TickResult("Satisfied", TRUE, 0, 0, 0) /\ By("content")
       ELSE TickResult("Pending", FALSE, finalInterval, 1, j) /\ By("none")
  /\ UNCHANGED <<flowvars, btnvars, xvars, auxvars>>

\* the loop is left; the screenshot, and waitFiveMinutesOnFinalURL
FinalReadyWaitEnd ==
  /\ Leaving("final")
  /\ LeavePoll("final")
  /\ \E url \in Urls : ReviewHold(url)
  /\ UNCHANGED <<page, llmSource, extractError, createError, creationStarted,
                 successReported, depth>>
  /\ UNCHANGED <<poller, elapsed, drift, tick, sleeps, pred, satisfiedBy,
                 btnvars, xvars, auxvars>>

\* clickGeneratePresentationOnOutlinePage, then waitForPresentationPageRedirect
OutlineGenerateClick ==
  /\ pc = "OutlineGenerateClick"
  /\ pc' = "RedirectWait"
  /\ StartPoll("redirect")
  /\ UNCHANGED <<page, llmSource, extractError, createError, creationStarted,
                 successReported, depth, btnvars, xvars,
                 auxvars, reviewHolds>>

RedirectTick ==
  /\ Running("redirect")
  /\ \E url \in Urls, j \in Jitters :
       IF OnRedirectedUrl(url) THEN TickResult("Satisfied", TRUE, 0, 0, 0) /\ By("url")
       ELSE TickResult("Pending", FALSE, redirectInterval, 1, j) /\ By("none")
  /\ UNCHANGED <<flowvars, btnvars, xvars, auxvars>>

RedirectWaitEnd ==
  /\ Leaving("redirect")
  /\ LeavePoll("redirect")
  /\ UNCHANGED <<page, llmSource, extractError, createError, creationStarted,
                 successReported, depth>>
  /\ UNCHANGED <<poller, elapsed, drift, tick, sleeps, pred, satisfiedBy,
                 btnvars, xvars,
                 auxvars, reviewHolds>>

\* the entry of waitForSpinningWheelToDisappear
RenderEnter ==
  /\ pc = "RenderEnter"
  /\ pc' = "RenderWait"
  /\ StartPoll("render")
  /\ UNCHANGED <<page, llmSource, extractError, createError, creationStarted,
                 successReported, depth, btnvars, xvars,
                 auxvars, reviewHolds>>

RenderTick ==
  /\ Running("render")
  /\ \E foundSpinner, raises, hasSlideContent \in BOOLEAN,
        url \in Urls, j \in Jitters :
       IF foundSpinner THEN TickResult("Pending", FALSE, renderInterval, 1, j) /\ By("none")
       ELSE IF OnRenderedUrl(url) THEN TickResult("Satisfied", TRUE, 0, 0, 0) /\ By("url")
       ELSE IF raises THEN TickResult("Error", FALSE, 0, 0, 0) /\ By("none")
       ELSE IF hasSlideContent THEN TickResult("Satisfied", TRUE, 0, 0, 0) /\ By("content")
       ELSE TickResult("Pending", FALSE, renderInterval, 1, j) /\ By("none")
  /\ UNCHANGED <<flowvars, btnvars, xvars, auxvars>>

RenderWaitEnd ==
  /\ Leaving("render")
  /\ LeavePoll("render")
  /\ \E url \in Urls : ReviewHold(url)
  /\ UNCHANGED <<page, llmSource, extractError, createError, creationStarted,
                 successReported, depth>>
  /\ UNCHANGED <<poller, elapsed, drift, tick, sleeps, pred, satisfiedBy,
                 btnvars, xvars, auxvars>>

\* page.evaluate raised inside a loop of the creation stage
CreationWaitThrows ==
  /\ pc \in {"GenerateWait", "FinalReadyWait", "RenderWait"}
  /\ outcome = "Error"
  /\ CreationFails("DomError")
  /\ UNCHANGED <<pollvars, btnvars, xvars,
                 auxvars, reviewHolds>>

\* handlePresentonUploadInterface returns: to the frame that called it, or
\* out of createPresentation, and automateFullWorkflow logs the success
UploadInterfaceReturns ==
  /\ pc = "Return"
  /\ IF depth > 0
     THEN /\ depth' = depth - 1
          /\ pc' = "GenerateClick"
          /\ UNCHANGED <<page, successReported>>
     ELSE /\ depth' = depth
          /\ page' = PageAfterClose(page)
          /\ successReported' = TRUE
          /\ pc' = "Succeeded"
  /\ UNCHANGED <<llmSource, extractError, createError, creationStarted,
                 pollvars, btnvars, xvars,
                 auxvars, reviewHolds>>

\* main: the hold after success or after the error, then the browser closes
MainClose ==
  /\ pc \in {"Succeeded", "Failed"}
  /\ pc' = "Closed"
  /\ UNCHANGED <<page, llmSource, extractError, createError, creationStarted,
                 successReported, depth, pollvars, btnvars, xvars,
                 auxvars, reviewHolds>>

Next ==
  \/ ExtractOpen \/ LoginCheck \/ PromptSubmit
  \/ ResponseTick \/ ResponseWaitEnd \/ ResponseWaitThrows
  \/ ResponseExtract \/ Parse
  \/ CreateOpen \/ ContentFill \/ GenerateClick
  \/ OutlineTick \/ OutlineWaitEnd
  \/ TemplateSelectCheck
  \/ ButtonTick \/ GenerateWaitEnd
  \/ FinalGenerateClick \/ FinalTick \/ FinalReadyWaitEnd
  \/ OutlineGenerateClick \/ RedirectTick \/ RedirectWaitEnd
  \/ RenderEnter \/ RenderTick \/ RenderWaitEnd
  \/ CreationWaitThrows
  \/ UploadInterfaceReturns
  \/ MainClose

Spec == Init /\ [][Next]_vars

\* the same workflow in a run in which every page.screenshot raises
SnapInit ==
  /\ XIdle /\ HIdle /\ CIdle /\ KIdle /\ VIdle /\ StepIdle /\ WStart
  /\ slowEnv = {}
  /\ snapshotsFail = TRUE
  /\ pageStalls = FALSE

SpecSnap == SnapInit /\ [][Next]_vars

\* the same workflow against a Presenton page that never leaves the upload
\* form: no URL changes, no button gets ready, no slide appears
StallInit ==
  /\ XIdle /\ HIdle /\ CIdle /\ KIdle /\ VIdle /\ StepIdle /\ WStart
  /\ slowEnv = {}
  /\ snapshotsFail = FALSE
  /\ pageStalls = TRUE

SpecStall == StallInit /\ [][Next]_vars

\* the wait timeouts test-slow.js puts into the environment
slowEnvVars == {"BUTTON_WAIT_TIMEOUT", "RESPONSE_WAIT_TIMEOUT"}

buttonWaitTimeout == 1200000
responseWaitTimeout == 300000

\* the same workflow started by test-slow.js, or without it
SlowInit ==
  /\ XIdle /\ HIdle /\ CIdle /\ KIdle /\ VIdle /\ StepIdle /\ WStart
  /\ slowEnv \in {{}, slowEnvVars}
  /\ snapshotsFail = FALSE
  /\ pageStalls = FALSE

SpecSlow == SlowInit /\ [][Next]_vars

-----------------------------------------------------------------------------
(* Claims about the workflow and its polling loops, checked under Spec *)

\* C1 (as stated): once the extraction stage has failed, the creation stage
\* is never started and no success is reported.
C1_ExtractionFailureAbortsWorkflow ==
  extractError # "none" => ~creationStarted /\ ~successReported

\* C1 (amended): a failure of the extraction stage is caught and the demo
\* response is carried forward: from then on llmResponse is the demo
\* response, the creation stage starts with it, and the workflow fails only
\* when the creation stage throws; success is reported only without one.
C1_ExtractionFailureFallsBackToDemo ==
  /\ extractError # "none" => llmSource = "demo"
  /\ creationStarted => llmSource \in {"extracted", "demo"}
  /\ llmSource = "demo" => extractError # "none"
  /\ pc = "Failed" => creationStarted /\ createError # "none"
  /\ successReported => creationStarted /\ createError = "none"

C1_Witness ==
  /\ extractError = "ExtractionFailed"
  /\ creationStarted /\ successReported

\* C6 (as stated): a loop whose predicate is true at its first evaluation
\* ends Satisfied without any sleep inside the loop, for every poller.
C6_FirstTickSatisfiedNeverSleeps ==
  (outcome = "Satisfied" /\ tick = 1) => sleeps = 0

\* C6 (amended): a loop satisfied at its first evaluation has slept inside
\* the loop not at all in the response, final-presentation, redirect and
\* render waits, once (before the evaluation) in the outline wait, and
\* twice (around its click) in the Generate-button wait.
C6_FirstTickSatisfiedSleepsByPoller ==
  (outcome = "Satisfied" /\ tick = 1) =>
     /\ pred
     /\ sleeps = (CASE poller = "outline" -> 1
                    [] poller = "button" -> 2
                    [] OTHER -> 0)
     /\ elapsed - drift = (CASE poller = "outline" -> outlineInterval
                             [] poller = "button" -> beforeClickWait + afterClickWait
                             [] OTHER -> 0)

C6_Witness ==
  /\ pc = "OutlineWait" /\ poller = "outline"
  /\ outcome = "Satisfied" /\ tick = 1 /\ sleeps = 1

\* C7: a loop reports TimedOut only when the time since it started is at
\* least its timeout; it is Satisfied only by an evaluation that was true;
\* and every pass that leaves it pending has slept at least the interval,
\* so that a predicate that stays false runs into the timeout.
C7_TimedOutOnlyAtDeadline ==
  /\ outcome = "TimedOut" =>
       elapsed >= (IF poller = "outline" THEN outlineAttempts * outlineInterval
                   ELSE MaxWaitOf(poller))
  /\ outcome = "Satisfied" => pred
  /\ outcome = "Pending" => tick * IntervalOf(poller) <= elapsed

C7_Witness ==
  /\ poller = "response" /\ outcome = "TimedOut" /\ ~pred
  /\ tick * responseInterval >= responseMaxWait

\* the step that follows each wait in the sequence of the workflow
StepAfterWait ==
  [p \in Pollers |->
     CASE p = "response" -> "ResponseExtract"
       [] p = "outline" -> "TemplateSelectCheck"
       [] p = "button" -> "FinalGenerateClick"
       [] p = "final" -> "OutlineGenerateClick"
       [] p = "redirect" -> "RenderEnter"
       [] OTHER -> "Return"]

C9_PollEndsOnlySatisfiedOrTimedOut ==
  (poller # "none" /\ pc # PcOf(poller)) => outcome \in {"Satisfied", "TimedOut"}

\* C10: the Generate-button wait is Satisfied exactly by the click of the
\* pass that found the button ready: the click goes to the button observed
\* visible and enabled in that pass, through a handle obtained in that pass;
\* and a pass that finds the button ready and whose click does not raise
\* ends the wait Satisfied.
C10_ClickGoesToButtonObservedReady ==
  /\ (pc = "GenerateWait" /\ outcome = "Satisfied") =>
       /\ handleTick = tick
       /\ readyIdx \in 1..Len(btns)
       /\ clickedIdx = readyIdx
       /\ btns[clickedIdx].text = "Generate Presentation"
       /\ btns[clickedIdx].enabled /\ btns[clickedIdx].visible
       /\ \A i \in 1..(readyIdx - 1) :
            ~(btns[i].text = "Generate Presentation"
              /\ btns[i].enabled /\ btns[i].visible)
  /\ (pc = "GenerateWait" /\ tick > 0 /\ handleTick = tick /\ ~clickRaised) =>
       outcome = "Satisfied"

\* three passes without a ready button, the fourth finds the one button of
\* the page ready
C10_Witness ==
  /\ pc = "GenerateWait" /\ outcome = "Satisfied"
  /\ tick = 4 /\ handleTick = 4 /\ clickFails = 0
  /\ elapsed - drift = 3 * buttonInterval + beforeClickWait + afterClickWait
  /\ btns = <<[text |-> "Generate Presentation", enabled |-> TRUE, visible |-> TRUE]>>
  /\ clickedIdx = 1

\* C11 (as stated): whenever the workflow dispatches the click of the final
\* Generate button, the Generate-button wait is the wait that ran last, that
\* is, it has run after the template check of this pass.
C11_GenerateWaitPrecedesClick ==
  [][(pc = "FinalGenerateClick" /\ pc' = "FinalReadyWait") =>
       (poller = "button" /\ outcome \in {"Satisfied", "TimedOut"})]_vars

\* the order of the steps of the workflow
StepOrder ==
  <<"Start", "LoginCheck", "PromptSubmit", "ResponseWait", "ResponseExtract",
    "Parse", "CreateOpen", "ContentFill", "GenerateClick", "OutlineWait",
    "TemplateSelectCheck", "GenerateWait", "FinalGenerateClick",
    "FinalReadyWait", "OutlineGenerateClick", "RedirectWait", "RenderEnter",
    "RenderWait", "Return", "Succeeded", "Failed", "Closed">>

Rank(step) == CHOOSE i \in 1..Len(StepOrder) : StepOrder[i] = step

\* C12 (as stated): the workflow only moves forward: no step takes it to a
\* state that comes earlier in the order of the states than the one it is in
\* (a step may stay in its state: the retry inside a state).
C12_StrictlyForward ==
  [][Rank(pc') >= Rank(pc)]_vars

\* C13 (as stated): the 5-minute hold happens at most once in a run, and
\* only after the redirect wait and the render wait have finished.
C13_SingleHoldAfterRender ==
  /\ reviewHolds <= 1
  /\ reviewHolds >= 1 => pc \in {"Return", "Succeeded", "Closed"}

\* C15 (as stated): the render wait is Satisfied only by the test that
\* finds slide content (with no spinner visible), never by the URL alone.
C15_RenderSatisfiedOnlyBySlideContent ==
  (poller = "render" /\ outcome = "Satisfied") => satisfiedBy = "content"

\* C16 (as stated): the response wait is Satisfied only by the test that
\* finds a follow-up affordance (an element matching a follow-up selector).
C16_ResponseSatisfiedOnlyByFollowUp ==
  (poller = "response" /\ outcome = "Satisfied") => satisfiedBy = "followUp"

-----------------------------------------------------------------------------
(* Claims about waitFiveMinutesOnFinalURL, checked under SpecHold *)

\* C14: a call of waitFiveMinutesOnFinalURL that has returned has made
\* exactly 300 waits if the URL it was called on contains /presentation,
\* /slides or /view, and no wait at all on any other URL; and it makes no
\* wait before it has found such a URL.
C14_HoldIffOnReviewUrl ==
  LET review == \E mk \in {"/presentation", "/slides", "/view"} : mk \in hurl
  IN  /\ hpc = "done" => hwaits = (IF review THEN 300 ELSE 0)
      /\ hwaits > 0 => review
      /\ hwaits <= 300

C14_Witness ==
  /\ hpc = "done" /\ hurl = {"/slides"} /\ hwaits = 300

-----------------------------------------------------------------------------
(* Claims about the front part of sendPromptAndGetResponse, checked under  *)
(* SpecChat                                                                *)

\* login is required: the URL is a login URL, or no chat indicator was found
\* and a login indicator was
LoginRequired(pg) == "loginUrl" \in pg \/ ("chat" \notin pg /\ "login" \in pg)

C18_NoCredentialsTakeSignupAndContinue ==
  /\ (loginPath # "none" /\ LoginRequired(lpage) /\ ~HasCredentials(env))
       => loginPath = "signup"
  /\ loginPath = "none" <=> cpc = "login"
  /\ cpc = "failed" => (loginPath # "none" /\ candidates = 0)

C18_Witness ==
  /\ loginPath = "signup" /\ "signup" \notin lpage
  /\ ~HasCredentials(env) /\ LoginRequired(lpage)
  /\ cpc = "done" /\ sent

\* C19: with OPENWEBUI_EMAIL and OPENWEBUI_PASSWORD set and login required,
\* performLogin is called, not handleSignupIfNeeded.
C19_EmailAndPasswordLogIn ==
  (/\ loginPath # "none" /\ LoginRequired(lpage)
   /\ "OPENWEBUI_EMAIL" \in env /\ "OPENWEBUI_PASSWORD" \in env)
    => loginPath = "performLogin"

\* C20: whatever happens in selectUWATKnowledge, the partial '#' is cleared
\* before the prompt is typed and sent, and a run in which only knowledge
\* selection raised never ends in 'Could not find chat input field'.
C20_KnowledgeSelectNeverBlocks ==
  /\ sent => inputText \in {<<"prompt">>, <<"#UWAT", " ", "prompt">>}
  /\ (kRaised /\ ~otherRaised) => cpc # "failed"

-----------------------------------------------------------------------------
(* Claims about the selector cascades, checked under SpecCascade *)

\* every selector of the list matches zero elements
AllEmpty(d) == \A j \in 1..MaxSelectors : ~d[j].raises /\ d[j].els = <<>>

\* the first of a set of <<selector, instance>> positions, in list order
\* and then in document order
FirstOf(S) ==
  CHOOSE p \in S : \A q \in S : p[1] < q[1] \/ (p[1] = q[1] /\ p[2] <= q[2])

\* the positions of the matches whose kind is one of kinds
Positions(d, kinds) ==
  {p \in (1..MaxSelectors) \X (1..2) :
     /\ ~d[p[1]].raises /\ p[2] <= Len(d[p[1]].els)
     /\ d[p[1]].els[p[2]] \in kinds}

\* the kinds of element click and fill accept
ClickableKinds == {e \in ElementKinds : Clickable(e)}

\* C21, as stated: when every selector of a cascade matches zero elements,
\* nothing is thrown: the code falls through to its next cascade or strategy.
C21_ExhaustedCascadeThrowsNothing ==
  (kpc = "done" /\ AllEmpty(kdom)) => kend # "threw"

\* C21, amended: when every selector of a cascade matches zero elements, the
\* chat-input cascade throws 'Could not find chat input field' and every
\* other cascade throws nothing: it ends empty, or goes on to the
\* bottom-button search in the two Generate-click steps.
C21_OnlyChatInputThrowsWhenExhausted ==
  (kpc = "done" /\ AllEmpty(kdom))
    => /\ kend = "threw" <=> kname = "chatInputSelectors"
       /\ (kname # "chatInputSelectors" /\ ~ScansInstances(kname))
            => kend = "exhausted"
       /\ ScansInstances(kname)
            => kend \in {"exhausted", "fallbackClicked", "clickRaised"}

C21_Witness ==
  /\ kpc = "done" /\ AllEmpty(kdom)
  /\ kname = "sendButtonSelectors" /\ kend = "exhausted" /\ kclicks = <<>>

\* C22: a selector whose evaluation raises is skipped: a cascade that ends
\* without an element has tried every selector of its list.
C22_RaisingSelectorIsSkipped ==
  kpc = "done" => (kend = "resolved" \/ kidx > MaxSelectors)

\* C23: the chat-input, send-button and generate-button cascades act on the
\* first visible, enabled match across the cascade, and on nothing only if
\* there is no such match.
C23_ActsOnFirstVisibleEnabledMatch ==
  (/\ kpc = "done"
   /\ kname \in {"chatInputSelectors", "sendButtonSelectors",
                 "generateButtons"})
    => kclicks = IF Positions(kdom, ClickableKinds) = {} THEN <<>>
                 ELSE <<FirstOf(Positions(kdom, ClickableKinds))>>

\* the selectors whose pick can be acted on, and the element the cascade
\* resolves from them
Resolving(c, d) ==
  {j \in 1..MaxSelectors :
     /\ ~d[j].raises /\ Pick(c, d[j].els) > 0
     /\ Clickable(d[j].els[Pick(c, d[j].els)])}

Resolved(c, d) == <<Min(Resolving(c, d)), Pick(c, d[Min(Resolving(c, d))].els)>>

C25_RejectedClickStaysInStep ==
  kname \in {"generateButtonSelectors", "specificGenerateSelectors"}
    => kend # "clickRaised"

-----------------------------------------------------------------------------
(* Claims about screenshots, checked under SpecSnap *)

\* C26: in a run in which every screenshot fails, no step ends with the
\* screenshot's error: a wait that is left goes to the step that follows
\* it, and a creation error that is rethrown is the original one.
C26_SnapshotFailureChangesNothing ==
  [][snapshotsFail =>
       /\ pc' # "SnapshotError"
       /\ createError' \in {"none", "NavigationError", "DomError"}
       /\ extractError' # "SnapshotError"
       /\ (outcome' \in {"Satisfied", "TimedOut"} /\ pc' # pc /\ pc = PcOf(poller))
            => pc' = StepAfterWait[poller]]_vars

C26_Witness ==
  /\ snapshotsFail /\ pc = "Closed" /\ poller = "render"
  /\ createError = "DomError" /\ page = "none"

-----------------------------------------------------------------------------
(* Claims about the pages of the two stages, checked under Spec *)

\* C27: while main holds the browser after a fatal failure, the page on
\* which the failure happened is open.
C27_FailedPageStaysOpen ==
  pc = "Failed" => page = "creation"

\* C28: the creation page is opened only when the extraction stage has
\* returned or failed and its page is closed; the two pages are never open
\* together.
C28_ExtractionEndsBeforeCreation ==
  [][/\ (creationStarted' /\ ~creationStarted)
          => (page = "none" /\ llmSource \in {"extracted", "demo"})
     /\ page' = "extraction" => ~creationStarted'
     /\ page' = "creation" => (creationStarted' /\ page \in {"none", "creation"})
    ]_vars

C28_Witness ==
  /\ page = "creation" /\ creationStarted
  /\ llmSource = "demo" /\ extractError = "DomError"

-----------------------------------------------------------------------------
(* Claims about the configured timeouts, checked under SpecSlow *)

\* C29: with BUTTON_WAIT_TIMEOUT set the Generate-button wait times out no
\* earlier than that value, and with RESPONSE_WAIT_TIMEOUT set the response
\* wait times out no earlier than that value.
C29_DeadlineIsConfiguredTimeout ==
  /\ (outcome = "TimedOut" /\ poller = "button"
        /\ "BUTTON_WAIT_TIMEOUT" \in slowEnv) => elapsed >= buttonWaitTimeout
  /\ (outcome = "TimedOut" /\ poller = "response"
        /\ "RESPONSE_WAIT_TIMEOUT" \in slowEnv) => elapsed >= responseWaitTimeout

-----------------------------------------------------------------------------
(* Claims about checkTemplateSelectionVisuals, checked under SpecVisual *)

\* C30: the check returns true exactly when the inspection does not raise
\* and a marker glyph or class, a background of the selected palette, or an
\* aria-selected, aria-checked or data-selected attribute is present.
C30_TrueIffAnySignal ==
  vpc = "done" =>
    (vresult = "true" <=> (~vraises /\ vsignals # {}))

-----------------------------------------------------------------------------
(* Claims about selectGeneralTemplate, checked under SpecTemplate *)

\* C31: when the visual check returns false after the first click and true
\* after the second, the step has clicked twice and ends selected; when the
\* check never returns true, the step still returns without raising.
C31_RetriesOnceAndNeverRaises ==
  tpc = "done" =>
    /\ (tfalse = 1 /\ tselected) => (tclicks = 2 /\ tend = "returned")
    /\ ~tselected => tend = "returned"

-----------------------------------------------------------------------------
(* Claims about the template step of the workflow, checked under Spec *)

\* C32: the workflow waits for the Generate button only after the visual
\* check has confirmed the selection of the General template; a dispatched
\* click alone never counts as a selection.
C32_ButtonWaitFollowsVisualCheck ==
  pc = "GenerateWait" => (vpc = "done" /\ vresult = "true")

-----------------------------------------------------------------------------
(* Claims about the page text fallback, checked under SpecExtract *)

\* strategy 3 ran: the first two strategies produced nothing
PageTextRan ==
  /\ XFinished
  /\ IsEmpty(SelectorCascade(dom))
  /\ ScanFoundNothing

\* the lines of at least n characters that hold no UI string
LongLines(d, n) ==
  { i \in 1 .. Len(d) : d[i].text.len >= n /\ ~d[i].text.chrome }

\* C33 as stated: strategy 3 returns the last line of 100 characters or more
\* that contains no UI-chrome string; such a line is never removed.
C33_KeepsLinesOf100OrMore ==
  PageTextRan =>
    IF LongLines(dom, 100) = {} THEN xpc = "threw"
    ELSE xpc = "returned" /\ xresult = dom[Max(LongLines(dom, 100))].text

\* C33 amended: strategy 3 returns the last line of more than 100 characters
\* that contains none of the strings 'Send a message', 'Enter', 'Type' and
\* 'Sign in', and throws when there is no such line; a line of exactly 100
\* characters is removed.
C33_KeepsLinesLongerThan100 ==
  PageTextRan =>
    IF LongLines(dom, 101) = {} THEN xpc = "threw" /\ xstrategy = 0
    ELSE /\ xpc = "returned" /\ xstrategy = 3
         /\ xresult = dom[Max(LongLines(dom, 101))].text

\* a line of 100 characters follows a line of 120: the earlier line is the
\* one returned
C33_Witness ==
  /\ PageTextRan /\ xstrategy = 3
  /\ Len(dom) = 2 /\ dom[2].text = Plain(100)
  /\ xresult = dom[1].text

-----------------------------------------------------------------------------
(* Claims about the content step of the creation stage, checked under       *)
(* SpecUpload                                                               *)

\* C34: the content step of the creation stage ends: after a bounded number
\* of calls of handlePresentonUploadInterface the workflow reaches the
\* search for the Generate button, whatever the page does.
C34_ContentStepEnds == <>(upc = "buttonSearch")

-----------------------------------------------------------------------------
(* Claims about the send step, checked under SpecChat *)

\* C35: at most one click on a send button completes; when the method has
\* sent, Enter was pressed exactly when no click completed; and nothing is
\* clicked or pressed unless the prompt was typed into a chat input before
\* (a run that finds no chat input throws before the send step).
C35_OneSendMechanism ==
  /\ buttonClicks <= 1 /\ enterPresses <= 1
  /\ cpc = "done" => (sent /\ (enterPresses = 1 <=> buttonClicks = 0))
  /\ (buttonClicks + enterPresses > 0) =>
       (inputText # <<>> /\ inputText[Len(inputText)] = "prompt")
  /\ cpc = "failed" => (buttonClicks + enterPresses = 0 /\ ~sent)

\* every send button selector was tried in vain and Enter was pressed
C35_Witness ==
  /\ cpc = "done" /\ sendIdx = MaxSelectors
  /\ buttonClicks = 0 /\ enterPresses = 1

-----------------------------------------------------------------------------
(* Claims about the reported success, checked under SpecStall *)

\* C36: a run that has ended has reported success exactly when the creation
\* stage threw nothing; on a page that stalls, the run that reports success
\* has left every wait of the creation stage by its timeout, with no
\* completion test satisfied.
C36_SuccessIffCreationReturned ==
  /\ successReported => pc \in {"Succeeded", "Closed"}
  /\ pc \in {"Succeeded", "Failed", "Closed"} =>
       /\ creationStarted
       /\ successReported <=> createError = "none"
  /\ (successReported /\ pageStalls) =>
       (poller = "render" /\ outcome = "TimedOut" /\ satisfiedBy = "none")

\* success reported after the render wait, the last of the waits, ran into
\* its timeout
C36_Witness ==
  /\ successReported /\ pageStalls /\ pc = "Succeeded"
  /\ poller = "render" /\ outcome = "TimedOut" /\ elapsed >= renderMaxWait

-----------------------------------------------------------------------------
(* Claims about pages and browser, checked under SpecMain *)

\* a stage is running
InStage == mpc \in {"extracting", "creating"}

-----------------------------------------------------------------------------
(* Claims about performLogin, checked under SpecChat *)

\* C38: whatever happens inside performLogin (fields missing, no button
\* clicked, a call raising, the login page still shown), handleLoginIfRequired
\* returns and the search for the chat input is the next step; the method
\* fails only later, when no chat input can be used.
C38_FailedLoginNeverAborts ==
  /\ [][cpc = "login" => cpc' = "input"]_vars
  /\ [](cpc = "failed" => candidates = 0)

\* a call inside performLogin raised with the fields not filled, and the
\* prompt was sent all the same
C38_Witness ==
  /\ loginPath = "performLogin"
  /\ loginEnd.end = "raised" /\ ~loginEnd.filled
  /\ cpc = "done" /\ sent

-----------------------------------------------------------------------------
(* Claims about the bottom-button fallbacks, checked under SpecFallback *)

\* C39: the button that receives the click of a fallback is the button the
\* list chose, whatever the page does between the list and the click.
C39_ClickHitsTheListedButton ==
  fend = "clicked" => fclicked = ftarget.id

====
